---- MODULE Spec2Model ----
(***************************************************************************)
(* A model of friar, a loader / verifier / interpreter for Lama bytecode.  *)
(*                                                                         *)
(* The module is byte-accurate: the bytecode is a sequence of bytes, the   *)
(* verifier (src/src/verifier.cpp) and the interpreter                     *)
(* (src/src/interpreter.cpp, the build without DYNAMIC_VERIFICATION, the   *)
(* one main.cpp runs after verify()) read opcodes and little-endian        *)
(* immediates from it exactly as the code does.                            *)
(*                                                                         *)
(* Conventions.                                                            *)
(*  - Addresses are 0-based as in the code; TLA+ sequences are 1-based, so *)
(*    the byte at address a of the bytecode is bc[a + 1].                  *)
(*  - uint32_t(-1) (the saved pc of the bottommost frame, the initial pc)  *)
(*    is written -1.                                                       *)
(*  - A 32-bit immediate whose bit 31 is set is read as MaxU31 with the    *)
(*    flag hi = TRUE: every comparison the code makes with such a value    *)
(*    (against a count, max_captures, a buffer size) has the same outcome. *)
(*  - Behaviour the C++ standard leaves undefined (std::unreachable(), an  *)
(*    access outside a buffer) ends the run in the status "ub" with the    *)
(*    reason recorded: nothing is assumed about what happens afterwards.   *)
(***************************************************************************)
EXTENDS Integers, Sequences, FiniteSets, TLC

(***************************************************************************)
(* Bounds of the model (not program constants).                            *)
(***************************************************************************)
\* the longest main-procedure body, in instructions, of the enumerated programs
MaxBody == 2
\* the number of interpreter instructions one run may execute
MaxSteps == 12
\* the number of verify() calls made on one Module object
MaxVerifyCalls == 2
\* the number of run() calls made besides the one main.cpp makes
MaxOtherCallers == 2
\* the width, in bits, of a machine word (auint / aint) of the modelled build
WordBits == 16

(***************************************************************************)
(* Program constants.                                                      *)
(***************************************************************************)
max_stack_height == 2147483647
max_captures == 2147483647
max_stack_size == 2147483647
max_member_count == 65535
max_elem_count == 268435455
MaxU31 == 2147483647

\* opcodes (bytecode.hpp)
OpAdd == 1
OpSub == 2
OpMul == 3
OpDiv == 4
OpMod == 5
OpLt == 6
OpLe == 7
OpGt == 8
OpGe == 9
OpEq == 10
OpNe == 11
OpAnd == 12
OpOr == 13
OpConst == 16
OpString == 17
OpSexp == 18
OpSti == 19
OpSta == 20
OpJmp == 21
OpEnd == 22
OpRet == 23
OpDrop == 24
OpDup == 25
OpSwap == 26
OpElem == 27
OpLdG == 32
OpLdL == 33
OpLdA == 34
OpLdC == 35
OpLdaG == 48
OpLdaL == 49
OpLdaA == 50
OpLdaC == 51
OpStG == 64
OpStL == 65
OpStA == 66
OpStC == 67
OpCjmpZ == 80
OpCjmpNz == 81
OpBegin == 82
OpCbegin == 83
OpClosure == 84
OpCallC == 85
OpCall == 86
OpTag == 87
OpArray == 88
OpFail == 89
OpLine == 90
OpPattEqStr == 96
OpPattString == 97
OpPattArray == 98
OpPattSexp == 99
OpPattRef == 100
OpPattVal == 101
OpPattFun == 102
OpCallLread == 112
OpCallLwrite == 113
OpCallLlength == 114
OpCallLstring == 115
OpCallBarray == 116
OpEof == 255

\* The verifier's switch names Instr::Ld, Instr::Lda and Instr::St, enumerators
\* that bytecode.hpp as given does not declare; the spec (4.1) encodes the
\* load/store family as base_opcode | var_kind, so they are the base opcodes.
OpLd == 32
OpLda == 48
OpSt == 64

\* object types of the Lama runtime (the GC ABI, spec section 6)
T_ARRAY == 0
T_STRING == 1
T_SEXP == 2
T_CLOSURE == 3

(***************************************************************************)
(* Little-endian immediates.                                               *)
(***************************************************************************)
\* util::to_u32_le
to_u32_le(v) ==
    << v % 256, (v \div 256) % 256, (v \div 65536) % 256, (v \div 16777216) % 256 >>

\* the four bytes at address a of buffer b, decoded (util::from_u32_le); bit 31
\* is reported apart in hi
from_u32_le(b, a) ==
    LET b3 == b[a + 4]
    IN  [ v  |-> IF b3 >= 128 THEN MaxU31
                 ELSE b[a + 1] + 256 * b[a + 2] + 65536 * b[a + 3] + 16777216 * b3,
          hi |-> b3 >= 128 ]

Max(a, b) == IF a >= b THEN a ELSE b

(***************************************************************************)
(* The enumerated inputs: modules.                                         *)
(***************************************************************************)
I0(op) == << op >>
I1(op, a) == << op >> \o to_u32_le(a)
I2(op, a, b) == << op >> \o to_u32_le(a) \o to_u32_le(b)
\* an immediate with bit 31 set
Neg32 == << 0, 0, 0, 128 >>

\* Begin's first immediate: the parameter count in the low 16 bits and the
\* operand-stack size the interpreter pre-allocates in the high 16 bits
BeginImm(params, size) == params + 65536 * size

\* the first instruction of the enumerated programs
Entries ==
    { I2(OpBegin, BeginImm(2, 4), 0),
      I2(OpBegin, BeginImm(2, 4), 1),
      I2(OpBegin, 2, 0),
      I2(OpBegin, 0, 0),
      I2(OpCbegin, BeginImm(2, 4), 0),
      << >> }

\* the instructions of the enumerated bodies; an entry is 9 bytes long, so
\* address 9 is the first body instruction and 200 is outside every program
Alphabet ==
    { I0(OpAdd), I0(OpDiv), I0(OpEq), I0(OpLt),
      I1(OpConst, 0), I1(OpConst, 1), << OpConst >> \o Neg32,
      I1(OpString, 0), I1(OpString, 7), I2(OpSexp, 0, 1),
      I0(OpSti), I0(OpSta),
      I1(OpJmp, 9), I1(OpJmp, 200), I1(OpJmp, 0),
      I0(OpEnd), I0(OpRet), I0(OpDrop), I0(OpDup), I0(OpSwap), I0(OpElem),
      I1(OpLdG, 0), I1(OpLdG, 5), I1(OpLdL, 0), I1(OpLdA, 0), I1(OpLdC, 0),
      I1(OpLdaL, 0), I1(OpStG, 0), I1(OpStL, 0),
      I1(OpCjmpZ, 9), I1(OpCjmpNz, 200),
      I2(OpBegin, 0, 0),
      I2(OpClosure, 200, 0), I2(OpClosure, 0, 1) \o << 1 >> \o to_u32_le(0),
      I1(OpCallC, 0),
      I2(OpCall, 9, 0), I2(OpCall, 200, 0), I2(OpCall, 0, 2),
      I2(OpTag, 0, 0), I1(OpArray, 0), I2(OpFail, 1, 1), I1(OpLine, 1),
      I0(OpPattEqStr), I0(OpPattString), I0(OpPattVal),
      I0(OpCallLread), I0(OpCallLwrite), I0(OpCallLlength), I0(OpCallLstring),
      I1(OpCallBarray, 1),
      << 0 >> }

RECURSIVE Concat(_)
Concat(ss) == IF ss = << >> THEN << >> ELSE Head(ss) \o Concat(Tail(ss))

RECURSIVE BodiesOfLen(_)
BodiesOfLen(n) ==
    IF n = 0 THEN { << >> }
    ELSE { b \o i : b \in BodiesOfLen(n - 1), i \in Alphabet }

Bodies == UNION { BodiesOfLen(n) : n \in 0 .. MaxBody }

\* every program ends with the end-of-file marker, as the loader leaves it
EnumeratedPrograms == { e \o b \o << OpEof >> : e \in Entries, b \in Bodies }

\* Begin 2 0 with room for 4 operands
Main(locals) == I2(OpBegin, BeginImm(2, 4), locals)

\* the end-to-end scenarios of the spec (section 8) and programs with several
\* procedures, which the enumeration above is too short to contain
Scenarios ==
    { \* 1: Begin 2 0; Const 42; CallLwrite; Drop; Const 0; End
      Concat(<< Main(0), I1(OpConst, 42), I0(OpCallLwrite), I0(OpDrop),
                I1(OpConst, 0), I0(OpEnd), << OpEof >> >>),
      \* 2: Begin 2 1; Const 1; StL 0; Drop; LdL 0; LdL 0; Add; CallLwrite; Drop; Const 0; End
      Concat(<< Main(1), I1(OpConst, 1), I1(OpStL, 0), I0(OpDrop), I1(OpLdL, 0),
                I1(OpLdL, 0), I0(OpAdd), I0(OpCallLwrite), I0(OpDrop),
                I1(OpConst, 0), I0(OpEnd), << OpEof >> >>),
      \* 3: Begin 2 0; Const 10; Const 0; Div; Drop; Const 0; End
      Concat(<< Main(0), I1(OpConst, 10), I1(OpConst, 0), I0(OpDiv), I0(OpDrop),
                I1(OpConst, 0), I0(OpEnd), << OpEof >> >>),
      \* 4: Begin 2 0; Const 1; Const 2; Lt; CjmpZ L1; Const 100; CallLwrite; Drop;
      \*    Jmp L2; L1: Const 200; CallLwrite; Drop; L2: Const 0; End
      Concat(<< Main(0), I1(OpConst, 1), I1(OpConst, 2), I0(OpLt), I1(OpCjmpZ, 37),
                I1(OpConst, 100), I0(OpCallLwrite), I0(OpDrop), I1(OpJmp, 44),
                I1(OpConst, 200), I0(OpCallLwrite), I0(OpDrop),
                I1(OpConst, 0), I0(OpEnd), << OpEof >> >>),
      \* 5: a Cbegin procedure at P = 19 and a direct Call P 0
      Concat(<< Main(0), I2(OpCall, 19, 0), I0(OpEnd),
                I2(OpCbegin, BeginImm(0, 2), 0), I1(OpLdC, 0), I0(OpEnd), << OpEof >> >>),
      \* a Begin procedure at 24 called with one argument, which it returns
      Concat(<< Main(0), I1(OpConst, 3), I2(OpCall, 24, 1), I0(OpEnd),
                I2(OpBegin, BeginImm(1, 2), 0), I1(OpLdA, 0), I0(OpEnd), << OpEof >> >>),
      \* a closure over local 0, called through CallC
      Concat(<< Main(1), I2(OpClosure, 29, 1), << 1 >>, to_u32_le(0),
                I1(OpCallC, 0), I0(OpEnd),
                I2(OpCbegin, BeginImm(0, 2), 0), I1(OpLdC, 0), I0(OpEnd), << OpEof >> >>),
      \* main calls the procedure at 25 and then jumps into its body, at 34
      Concat(<< Main(0), I2(OpCall, 25, 0), I0(OpDrop), I1(OpJmp, 34), I0(OpEnd),
                I2(OpBegin, BeginImm(0, 2), 0), I1(OpConst, 0), I0(OpEnd), << OpEof >> >>),
      \* two paths reach address 25 with the heights 0 and 1
      Concat(<< Main(0), I0(OpCallLread), I1(OpCjmpZ, 25), I1(OpConst, 1), I1(OpJmp, 25),
                I1(OpConst, 0), I0(OpEnd), << OpEof >> >>),
      \* string and aggregate instructions
      Concat(<< Main(0), I1(OpConst, 0), I1(OpString, 0), I0(OpSwap), I0(OpEnd),
                << OpEof >> >>),
      Concat(<< Main(0), I1(OpString, 0), I1(OpConst, 0), I1(OpConst, 98), I0(OpSta),
                I0(OpEnd), << OpEof >> >>),
      Concat(<< Main(0), I1(OpConst, 1), I1(OpConst, 2), I0(OpPattEqStr), I0(OpEnd),
                << OpEof >> >>),
      Concat(<< Main(0), I1(OpConst, 1), I1(OpCallBarray, 1), I1(OpConst, 0), I0(OpElem),
                I0(OpEnd), << OpEof >> >>),
      \* the empty bytecode: only the end-of-file marker
      << OpEof >> }

Programs == EnumeratedPrograms \cup Scenarios

\* string tables: "a", "ab" and "b" NUL-terminated; one without any NUL; empty
StrTabs == { << 97, 0 >>, << 97, 98, 0, 98, 0 >>, << 97, 98 >>, << >> }
DefaultStrTab == << 97, 98, 0, 98, 0 >>

\* a symbol: the file offset of its entry, its address, its name (a strtab offset)
Sym(offset, address, name) == [ offset |-> offset, address |-> address, name |-> name ]

SymTabs ==
    { << >>,
      << Sym(12, 0, 0) >>,
      << Sym(12, 0, 0), Sym(20, 9, 1) >>,
      << Sym(12, 0, 0), Sym(20, 9, 0) >>,
      << Sym(12, 0, 1), Sym(20, 9, 3) >>,
      << Sym(12, 0, 0), Sym(20, 300, 1) >>,
      << Sym(12, 0, 9) >>,
      << Sym(12, 0, 4) >> }

DefaultProgram ==
    Concat(<< Main(0), I1(OpConst, 0), I0(OpEnd), << OpEof >> >>)

(***************************************************************************)
(* The state.                                                              *)
(***************************************************************************)
VARIABLES
    \* bytecode::Module
    bc,              \* Module::bytecode, a sequence of bytes
    strtab,          \* Module::strtab, a sequence of bytes
    symtab,          \* Module::symtab, a sequence of Sym
    global_count,    \* Module::global_count
    symtab_map,      \* Module::symtab_map: a set of [name, address], one per name
    beyond,          \* the bytes that follow the string table's buffer in memory
    \* Verifier (one object per verify() call)
    vpc,             \* where verify() is: "idle", "bytecode", "hang", "done"
    to_verify,       \* Verifier::to_verify_, a stack of requests (back = last)
    verified,        \* Verifier::verified_, one BytecodeInfo per bytecode address
    procs,           \* Verifier::procs_, a map from procedure addresses to ProcInfo
    post_validate_reqs, \* Verifier::post_validate_reqs_
    last_strtab_entry,  \* Verifier::last_strtab_entry_
    vresults,        \* what each completed verify() call returned, in order
    \* Interpreter::run
    rstatus,         \* "idle", "run", and how run() ended: "ok", "error", "ub", "thrown"
    rmsg,            \* the error run() returned, or what made the behaviour undefined
    pc, base, args,  \* the per-frame registers
    call_target, call_closure,
    frames,          \* std::vector<Frame>
    stack,           \* std::vector<auint>, the contents of its buffer
    sdata,           \* stack.data(): which buffer the vector owns (0: none yet)
    gc_stack_top,    \* __gc_stack_top: the buffer it points to the start of
    sbot,            \* __gc_stack_bottom - __gc_stack_top, i.e. stack_size()
    heap,            \* the objects the runtime has allocated; object i is the word 2 * i
    output,          \* what has been written to the output stream
    running,         \* UniqueRunnerGuard::running
    gc,              \* the runtime's collector: "off", "on" (after __init), "down"
    steps,           \* the number of instructions the run has executed
    trace,           \* history: the (address, frame's procedure, height) of each
                     \* instruction executed
    act,             \* for each caller of run(): its thread and how far its call
                     \* got: "none", "past" (the guard), "rejected", "returned"
    owner,           \* the caller whose activation the registers above belong to
    gcev,            \* history: who set the collector's stack pointers, called
                     \* __init and __shutdown, entered a frame, executed an
                     \* instruction, in order
    calls,           \* history: for each frame above main's, the machine as the
                     \* Call or CallC that entered it found it
    \* decode::Decoder over Module::bytecode
    dpos,            \* Decoder::pos_
    devents,         \* what the latest next() call delivered to its listener, in order
    \* idiom::find_idioms
    ipc,             \* where find_idioms is: "idle", "reach", "walk", "collect", "done"
    info,            \* ModuleInfo::procs: the procedure addresses, in the order the
                     \* map is iterated in
    to_process,      \* find_reachable_instrs: the work list (back = last)
    reachable,       \* the addresses whose bit of `reachable` is set
    split_points,    \* the addresses whose bit of `split_points` is set
    walk_it,         \* walk_reachable_instrs: the address the scan has got to
    occurrences,     \* the map from byte spans to counts
    idioms,          \* std::vector<Idiom>
    \* loader::Loader
    file,            \* the bytes of the input stream
    lpc,             \* where load() is: the field it reads next, "strtab", "bytecode",
                     \* "done"
    lpos,            \* Loader::pos_
    lhdr,            \* load_header's strtab_size and symtab_entries, and the address
                     \* of the symbol being read
    lmod,            \* Loader::mod_
    lres,            \* the error load() returned, if it returned one
    \* main
    mode,            \* args.mode
    dynamic_verification, \* the build defines DYNAMIC_VERIFICATION
    mpc,             \* where main is: "none", "load", "print_disas", "verify",
                     \* "print_idioms", "run", "exit"
    exit_code        \* what main returned

modVars == << bc, strtab, symtab, global_count, beyond >>
verVars == << vpc, to_verify, verified, procs, post_validate_reqs, last_strtab_entry,
              vresults, symtab_map >>
runVars == << rstatus, rmsg, pc, base, args, call_target, call_closure, frames, stack,
              sdata, gc_stack_top, sbot, heap, output, running, gc, steps, trace,
              act, owner, gcev, calls >>
decVars == << dpos, devents >>
idiomVars == << ipc, info, to_process, reachable, split_points, walk_it, occurrences,
                idioms >>
loaderVars == << file, lpc, lpos, lhdr, lmod, lres >>
mainVars == << mode, dynamic_verification, mpc, exit_code >>
restVars == << idiomVars, loaderVars, mainVars >>
vars == << modVars, verVars, runVars, decVars, restVars >>

(***************************************************************************)
(* Results: std::expected<void, Error>, the error with its offset and a    *)
(* name for its message.                                                   *)
(***************************************************************************)
Ok == [ ok |-> TRUE, offset |-> 0, kind |-> "none" ]
Err(offset, kind) == [ ok |-> FALSE, offset |-> offset, kind |-> kind ]

(***************************************************************************)
(* Verifier (src/src/verifier.cpp).                                        *)
(***************************************************************************)
\* Verifier::compute_last_strtab_entry: the index of the last NUL byte, 0 when
\* the table holds none
RECURSIVE find_last_nul(_, _)
find_last_nul(st, i) ==
    IF i = 0 THEN 0
    ELSE IF st[i] = 0 THEN i
    ELSE find_last_nul(st, i - 1)

compute_last_strtab_entry(st) ==
    LET i == find_last_nul(st, Len(st))
    IN  IF i = 0 THEN 0 ELSE i - 1

\* Verifier::verify_strtab_entry
verify_strtab_entry(st, last, offset, pos) ==
    IF offset >= Len(st) THEN Err(pos, "strtab_oob")
    ELSE IF offset > last THEN Err(pos, "strtab_not_nul")
    ELSE Ok

\* Module::strtab_entry_at for an offset inside the table: the bytes from the
\* offset to the next NUL byte; a table without a NUL after the offset is read
\* past its end, into the bytes that follow it in memory
RECURSIVE c_str(_, _)
c_str(mem, i) ==
    IF i > Len(mem) \/ mem[i] = 0 THEN << >>
    ELSE << mem[i] >> \o c_str(mem, i + 1)

strtab_entry_at(st, after, offset) == c_str(st \o after, offset + 1)

\* Verifier::verify_symtab from symbol i on; map is Module::symtab_map, which
\* outlives the Verifier
RECURSIVE verify_symtab(_, _, _, _, _, _, _)
verify_symtab(syms, i, st, after, last, size, map) ==
    IF i > Len(syms) THEN [ res |-> Ok, map |-> map ]
    ELSE LET sym == syms[i]
             r == verify_strtab_entry(st, last, sym.name, sym.offset)
             name == strtab_entry_at(st, after, sym.name)
         IN  IF sym.address > size
                 THEN [ res |-> Err(sym.offset, "symbol_addr_oob"), map |-> map ]
             ELSE IF ~r.ok
                 THEN [ res |-> Err(r.offset, "symbol_name_illegal"), map |-> map ]
             ELSE IF \E e \in map : e.name = name
                 THEN [ res |-> Err(sym.address, "symbol_duplicate"), map |-> map ]
             ELSE verify_symtab(syms, i + 1, st, after, last, size,
                                map \cup { [ name |-> name, address |-> sym.address ] })

\* VerifyReq
TopLevelInstrVerifyReq(addr, main) ==
    [ addr |-> addr, top |-> TRUE, main |-> main, proc_addr |-> 0, stack_height |-> 0 ]
BodyInstrVerifyReq(addr, proc_addr, stack_height) ==
    [ addr |-> addr, top |-> FALSE, main |-> FALSE, proc_addr |-> proc_addr,
      stack_height |-> stack_height ]

\* BytecodeInfo and ProcInfo
BytecodeInfo(kind, proc_addr, stack_height) ==
    [ kind |-> kind, proc_addr |-> proc_addr, stack_height |-> stack_height ]
ProcInfo(params, locals, captures, stack_size, is_closure) ==
    [ params |-> params, locals |-> locals, captures |-> captures,
      stack_size |-> stack_size, is_closure |-> is_closure ]

\* PostValidateReq
ClosureReq(addr, target_addr, captures) ==
    [ call |-> FALSE, addr |-> addr, target_addr |-> target_addr, n |-> captures ]
CallReq(addr, target_addr, nargs) ==
    [ call |-> TRUE, addr |-> addr, target_addr |-> target_addr, n |-> nargs ]

\* Verifier::Verifier: verified_.resize(bytecode.size()) value-initialises each
\* BytecodeInfo, and kind has no default member initialiser, so it is zeroed:
\* Kind(0) is Proc
ValueInitializedKind == "Proc"
NewVerified(size) ==
    [ a \in 0 .. size - 1 |-> BytecodeInfo(ValueInitializedKind, 0, 0) ]

\* std::unordered_map: insert keeps an existing entry, operator[] adds a
\* value-initialised one
MapInsert(m, k, v) ==
    IF k \in DOMAIN m THEN m ELSE [ x \in DOMAIN m \cup { k } |-> IF x = k THEN v ELSE m[x] ]
MapIndex(m, k) == MapInsert(m, k, ProcInfo(0, 0, 0, 0, FALSE))

\* Verifier::read_u32: the immediate at addr, and the address after it
read_u32(b, addr, allow_negative) ==
    IF addr + 4 >= Len(b) THEN [ res |-> Err(addr, "imm_eof"), v |-> 0, addr |-> addr ]
    ELSE LET r == from_u32_le(b, addr)
         IN  IF ~allow_negative /\ r.hi
                 THEN [ res |-> Err(addr, "imm_too_large"), v |-> 0, addr |-> addr ]
             ELSE [ res |-> Ok, v |-> r.v, addr |-> addr + 4 ]

\* Verifier::read_varspec: addr is taken by reference and never advanced
read_varspec(b, addr, ignore_hi) ==
    IF addr + 5 >= Len(b)
        THEN [ res |-> Err(addr, "varspec_eof"), kind |-> 0, addr |-> addr, idx |-> 0 ]
    ELSE LET raw == b[addr + 1]
             kind == IF ignore_hi THEN raw % 16 ELSE raw
         IN  IF kind > 3
                 THEN [ res |-> Err(addr, "varspec_kind"), kind |-> 0, addr |-> addr,
                        idx |-> 0 ]
             ELSE [ res |-> Ok, kind |-> kind, addr |-> addr,
                    idx |-> from_u32_le(b, addr + 1).v ]

\* The part of the Verifier an instruction's checks update: the height of the
\* instruction being verified (info.stack_height), procs_, to_verify_ and
\* post_validate_reqs_; res is the instruction's result so far
Ctx(res, h, ps, tv, post) ==
    [ res |-> res, h |-> h, procs |-> ps, to_verify |-> tv, post |-> post ]
Fail(c, offset, kind) == [ c EXCEPT !.res = Err(offset, kind) ]

\* the lambda check_stack; pk is the key of the ProcInfo that `proc` refers to
check_stack(c, pk, op_addr, pops, pushes) ==
    IF ~c.res.ok THEN c
    ELSE IF c.h < pops THEN Fail(c, op_addr, "stack_underflow")
    ELSE IF max_stack_height - c.h < pushes THEN Fail(c, op_addr, "stack_overflow")
    ELSE LET h2 == c.h + pushes - pops
         IN  [ c EXCEPT !.h = h2,
                        !.procs = [ c.procs EXCEPT ![pk].stack_size = Max(@, h2) ] ]

\* the lambda check_varspec
check_varspec(c, pk, vs, gcount) ==
    IF ~c.res.ok THEN c
    ELSE IF ~vs.res.ok THEN [ c EXCEPT !.res = vs.res ]
    ELSE CASE vs.kind = 0 ->
                IF vs.idx >= gcount THEN Fail(c, vs.addr, "global_oob") ELSE c
           [] vs.kind = 1 ->
                IF vs.idx >= c.procs[pk].locals THEN Fail(c, vs.addr, "local_oob") ELSE c
           [] vs.kind = 2 ->
                IF vs.idx >= c.procs[pk].params THEN Fail(c, vs.addr, "param_oob") ELSE c
           [] OTHER ->
                IF vs.idx >= max_captures THEN Fail(c, vs.addr, "capture_too_large")
                ELSE [ c EXCEPT !.procs =
                         [ c.procs EXCEPT ![pk].captures = Max(@, vs.idx + 1) ] ]

\* the lambda check_jmp_target; the target is enqueued with the height the
\* instruction has when the lambda runs
check_jmp_target(c, b, proc_addr, l, l_addr) ==
    IF ~c.res.ok THEN c
    ELSE IF l >= Len(b) THEN Fail(c, l_addr, "jmp_oob")
    ELSE IF b[l + 1] \in { OpBegin, OpCbegin } THEN Fail(c, l_addr, "jmp_to_proc")
    ELSE IF b[l + 1] = OpEof THEN Fail(c, l_addr, "jmp_to_eof")
    ELSE [ c EXCEPT !.to_verify = Append(@, BodyInstrVerifyReq(l, proc_addr, c.h)) ]

\* a result of read_u32 folded into the context
WithRead(c, r) == IF c.res.ok /\ ~r.res.ok THEN [ c EXCEPT !.res = r.res ] ELSE c
\* a result of verify_strtab_entry folded into the context
WithRes(c, r) == IF c.res.ok /\ ~r.ok THEN [ c EXCEPT !.res = r ] ELSE c

\* what the switch of verify_body_instr leaves: the context, the address after
\* the instruction's immediates, continue_path, and whether the case loops forever
BodyOut(c, addr, cont, hang) == [ c |-> c, addr |-> addr, cont |-> cont, hang |-> hang ]

BinopOpcodes == OpAdd .. OpOr
PattOpcodes == OpPattEqStr .. OpPattFun

\* the cases of the switch (instr) of verify_body_instr; a1 is the address after
\* the opcode, u1 and u2 are what read_u32 returns for the first and the second
\* immediate (each case reads only the immediates it has)
body_cases(c, b, st, last, gcount, pk, proc_addr, op_addr, instr, u1, u2) ==
    LET a1 == op_addr + 1
        both == WithRead(WithRead(c, u1), u2)
    IN
    CASE instr \in BinopOpcodes -> BodyOut(check_stack(c, pk, op_addr, 2, 1), a1, TRUE, FALSE)
      [] instr = OpConst ->
            LET k == read_u32(b, a1, TRUE)
            IN  BodyOut(check_stack(WithRead(c, k), pk, op_addr, 0, 1), k.addr, TRUE, FALSE)
      [] instr = OpString ->
            LET s == WithRes(WithRead(c, u1), verify_strtab_entry(st, last, u1.v, a1))
            IN  BodyOut(check_stack(s, pk, op_addr, 0, 1), u1.addr, TRUE, FALSE)
      [] instr = OpSexp ->
            LET s == WithRes(both, verify_strtab_entry(st, last, u1.v, a1))
            IN  BodyOut(check_stack(s, pk, op_addr, u2.v, 1), u2.addr, TRUE, FALSE)
      [] instr = OpSti -> BodyOut(check_stack(c, pk, op_addr, 2, 1), a1, TRUE, FALSE)
      [] instr = OpSta -> BodyOut(check_stack(c, pk, op_addr, 3, 1), a1, TRUE, FALSE)
      [] instr = OpJmp ->
            BodyOut(check_jmp_target(WithRead(c, u1), b, proc_addr, u1.v, a1),
                    u1.addr, FALSE, FALSE)
      [] instr \in { OpEnd, OpRet } ->
            BodyOut(check_stack(c, pk, op_addr, 1, 1), a1, FALSE, FALSE)
      [] instr = OpDrop -> BodyOut(check_stack(c, pk, op_addr, 1, 0), a1, TRUE, FALSE)
      [] instr = OpDup -> BodyOut(check_stack(c, pk, op_addr, 1, 2), a1, TRUE, FALSE)
      [] instr = OpSwap -> BodyOut(check_stack(c, pk, op_addr, 2, 2), a1, TRUE, FALSE)
      [] instr = OpElem -> BodyOut(check_stack(c, pk, op_addr, 2, 1), a1, TRUE, FALSE)
      [] instr \in { OpLd, OpLda } ->
            \* read_varspec(--addr, true): addr is the opcode's address again
            LET vs == read_varspec(b, op_addr, TRUE)
            IN  BodyOut(check_stack(check_varspec(c, pk, vs, gcount), pk, op_addr, 0, 1),
                        op_addr, TRUE, FALSE)
      [] instr = OpSt ->
            LET vs == read_varspec(b, op_addr, TRUE)
            IN  BodyOut(check_stack(check_varspec(c, pk, vs, gcount), pk, op_addr, 1, 1),
                        op_addr, TRUE, FALSE)
      [] instr \in { OpCjmpZ, OpCjmpNz } ->
            LET j == check_jmp_target(WithRead(c, u1), b, proc_addr, u1.v, a1)
            IN  BodyOut(check_stack(j, pk, op_addr, 1, 0), u1.addr, TRUE, FALSE)
      [] instr = OpBegin -> BodyOut(Fail(c, op_addr, "nested_begin"), a1, TRUE, FALSE)
      [] instr = OpCbegin -> BodyOut(Fail(c, op_addr, "nested_cbegin"), a1, TRUE, FALSE)
      [] instr = OpClosure ->
            \* while (result) { result = read_varspec(addr, false).and_then(check_varspec) }
            \* reads the same descriptor again and again: the loop ends with the
            \* first error, and never when the descriptor is valid
            LET vs == read_varspec(b, u2.addr, FALSE)
                v == check_varspec(both, pk, vs, gcount)
            IN  BodyOut(v, u2.addr, TRUE, v.res.ok)
      [] instr = OpCallC ->
            BodyOut(check_stack(WithRead(c, u1), pk, op_addr, u1.v + 1, 1),
                    u1.addr, TRUE, FALSE)
      [] instr = OpCall ->
            LET k == check_stack(both, pk, op_addr, u2.v, 1)
            IN  BodyOut(IF k.res.ok
                            THEN [ k EXCEPT !.post = Append(@, CallReq(op_addr, u1.v, u2.v)) ]
                            ELSE k,
                        u2.addr, TRUE, FALSE)
      [] instr = OpTag ->
            LET s == WithRes(both, verify_strtab_entry(st, last, u1.v, a1))
            IN  BodyOut(check_stack(s, pk, op_addr, 1, 1), u2.addr, TRUE, FALSE)
      [] instr = OpArray ->
            BodyOut(check_stack(WithRead(c, u1), pk, op_addr, 1, 1), u1.addr, TRUE, FALSE)
      [] instr = OpFail ->
            BodyOut(check_stack(both, pk, op_addr, 1, 0), u2.addr, FALSE, FALSE)
      [] instr = OpLine -> BodyOut(WithRead(c, u1), u1.addr, TRUE, FALSE)
      [] instr \in PattOpcodes -> BodyOut(check_stack(c, pk, op_addr, 1, 1), a1, TRUE, FALSE)
      [] instr = OpCallLread -> BodyOut(check_stack(c, pk, op_addr, 0, 1), a1, TRUE, FALSE)
      [] instr \in { OpCallLwrite, OpCallLlength, OpCallLstring } ->
            BodyOut(check_stack(c, pk, op_addr, 1, 1), a1, TRUE, FALSE)
      [] instr = OpCallBarray ->
            BodyOut(check_stack(WithRead(c, u1), pk, op_addr, u1.v, 1), u1.addr, TRUE, FALSE)
      [] instr = OpEof -> BodyOut(Fail(c, op_addr, "eof_in_body"), a1, TRUE, FALSE)
      \* the switch has no default: any other byte is passed over
      [] OTHER -> BodyOut(c, a1, TRUE, FALSE)

body_second_imm(c, b, st, last, gcount, pk, proc_addr, op_addr, instr, u1) ==
    body_cases(c, b, st, last, gcount, pk, proc_addr, op_addr, instr, u1,
               read_u32(b, u1.addr, FALSE))

\* the switch (instr) of verify_body_instr
body_switch(c, b, st, last, gcount, pk, proc_addr, op_addr, instr) ==
    body_second_imm(c, b, st, last, gcount, pk, proc_addr, op_addr, instr,
                    read_u32(b, op_addr + 1, FALSE))

\* The Verifier's fields as one record, with the result of the step taken
VState(tv, vf, ps, post, res, hang) ==
    [ to_verify |-> tv, verified |-> vf, procs |-> ps, post |-> post, res |-> res,
      hang |-> hang ]

\* a verify_top_level_instr that puts its request back on the work list
verify_top_level_requeue(V, b, addr, main) ==
    [ V EXCEPT !.to_verify = Append(@, TopLevelInstrVerifyReq(addr, main)) ]

\* Verifier::verify_top_level_instr
verify_top_level_instr(V, b, addr, main) ==
    IF addr >= Len(b) THEN [ V EXCEPT !.res = Err(addr, "no_eof_marker") ]
    ELSE IF V.verified[addr].kind \in { "Proc", "Eof" } THEN V
    ELSE LET instr == b[addr + 1]
             p == read_u32(b, addr + 1, FALSE)
             l == read_u32(b, p.addr, FALSE)
         IN  CASE instr = OpCbegin /\ main -> [ V EXCEPT !.res = Err(addr, "cbegin_main") ]
               [] instr \in { OpBegin, OpCbegin } /\ ~(instr = OpCbegin /\ main) ->
                    IF ~p.res.ok THEN [ V EXCEPT !.res = p.res ]
                    ELSE IF ~l.res.ok THEN [ V EXCEPT !.res = l.res ]
                    ELSE [ V EXCEPT
                             !.procs = MapInsert(@, addr,
                                           ProcInfo(p.v, l.v, 0, 0, instr = OpCbegin)),
                             !.verified[addr] = BytecodeInfo("Proc", addr, 0),
                             !.to_verify = Append(@, BodyInstrVerifyReq(addr, addr, 0)) ]
               [] instr = OpEof ->
                    IF main THEN [ V EXCEPT !.res = Err(addr, "no_main") ]
                    ELSE [ V EXCEPT !.verified[addr] = BytecodeInfo("Eof", 0, 0) ]
               [] OTHER -> [ V EXCEPT !.res = Err(addr, "illegal_top_level") ]

\* the end of verify_body_instr: what the switch left is stored, and the
\* successor is enqueued
body_finish(V, addr, proc_addr, kind, instr, out) ==
    LET c == out.c
        \* info.kind is never assigned: it stays what it was
        vf == [ V.verified EXCEPT ![addr] = BytecodeInfo(kind, proc_addr, c.h) ]
        tv == IF ~c.res.ok \/ out.hang THEN c.to_verify
              ELSE IF instr = OpEnd
                  THEN Append(c.to_verify, TopLevelInstrVerifyReq(out.addr, FALSE))
              ELSE IF out.cont
                  THEN Append(c.to_verify, BodyInstrVerifyReq(out.addr, proc_addr, c.h))
              ELSE c.to_verify
    IN  VState(tv, vf, c.procs, c.post, c.res, out.hang)

\* the start of the body case: auto &proc = procs_[info.proc_addr], taken before
\* info.proc_addr is assigned, and the first update of proc.stack_size
body_start(V, b, st, last, gcount, addr, proc_addr, stack_height, pk, kind) ==
    body_finish(V, addr, proc_addr, kind, b[addr + 1],
                body_switch(Ctx(Ok, stack_height,
                                [ MapIndex(V.procs, pk) EXCEPT
                                    ![pk].stack_size = Max(@, stack_height) ],
                                V.to_verify, V.post),
                            b, st, last, gcount, pk, proc_addr, addr, b[addr + 1]))

\* Verifier::verify_body_instr
verify_body_instr(V, b, st, last, gcount, addr, proc_addr, stack_height) ==
    IF addr >= Len(b) THEN [ V EXCEPT !.res = Err(addr, "eof_unexpected") ]
    ELSE IF V.verified[addr].kind = "Body" THEN
        IF V.verified[addr].proc_addr # proc_addr
            THEN [ V EXCEPT !.res = Err(addr, "multiple_procs") ]
        ELSE IF V.verified[addr].stack_height # stack_height
            THEN [ V EXCEPT !.res = Err(addr, "unbalanced") ]
        ELSE V
    ELSE body_start(V, b, st, last, gcount, addr, proc_addr, stack_height,
                    V.verified[addr].proc_addr, V.verified[addr].kind)

\* the post-validation of one Closure or Call (the second loop of verify_bytecode)
post_validate(req, size, ps) ==
    IF req.target_addr >= size
        THEN Err(req.addr, IF req.call THEN "call_oob" ELSE "closure_oob")
    ELSE IF req.target_addr \notin DOMAIN ps
        THEN Err(req.addr, IF req.call THEN "call_not_proc" ELSE "closure_not_proc")
    ELSE IF req.call
        THEN IF ps[req.target_addr].is_closure THEN Err(req.addr, "call_closure")
             ELSE IF req.n # ps[req.target_addr].params THEN Err(req.addr, "call_arity")
             ELSE Ok
    ELSE IF req.n < ps[req.target_addr].captures THEN Err(req.addr, "closure_captures")
    ELSE Ok

RECURSIVE post_validate_all(_, _, _, _)
post_validate_all(reqs, i, size, ps) ==
    IF i > Len(reqs) THEN Ok
    ELSE LET r == post_validate(reqs[i], size, ps)
         IN  IF ~r.ok THEN r ELSE post_validate_all(reqs, i + 1, size, ps)

(***************************************************************************)
(* verify(mod): Verifier(mod).verify(), one action per step of it.         *)
(***************************************************************************)
\* the bytes after a string table that ends with NUL are never read
BeyondChoices(st) ==
    IF st # << >> /\ st[Len(st)] = 0 THEN { << 0 >> } ELSE { << 0 >>, << 98, 0 >> }

InitModule ==
    \/ /\ bc \in Programs
       /\ strtab = DefaultStrTab
       /\ symtab = << >>
       /\ global_count = 1
       /\ beyond = << 0 >>
    \/ /\ bc = DefaultProgram
       /\ strtab \in StrTabs
       /\ symtab \in SymTabs
       /\ global_count \in { 0, 1 }
       /\ beyond \in BeyondChoices(strtab)

InitVerifier ==
    /\ vpc = "idle"
    /\ to_verify = << >>
    /\ verified = << >>
    /\ procs = << >>
    /\ post_validate_reqs = << >>
    /\ last_strtab_entry = 0
    /\ vresults = << >>
    /\ symtab_map = { }

\* the constructor, compute_last_strtab_entry and verify_symtab; verify_bytecode
\* follows only when the symbol table is accepted
VerifyCall ==
    /\ vpc \in { "idle", "done" }
    /\ rstatus = "idle"
    /\ Len(vresults) < MaxVerifyCalls
    /\ LET last == compute_last_strtab_entry(strtab)
           r == verify_symtab(symtab, 1, strtab, beyond, last, Len(bc), symtab_map)
       IN  /\ last_strtab_entry' = last
           /\ symtab_map' = r.map
           /\ verified' = NewVerified(Len(bc))
           /\ to_verify' = << TopLevelInstrVerifyReq(0, TRUE) >>
           /\ procs' = << >>
           /\ post_validate_reqs' = << >>
           /\ IF r.res.ok
                  THEN vpc' = "bytecode" /\ UNCHANGED vresults
                  ELSE vpc' = "done" /\ vresults' = Append(vresults, r.res)
    /\ UNCHANGED << modVars, runVars, decVars, restVars >>

\* std::visit on a request
visit(req, V) ==
    IF req.top
        THEN verify_top_level_instr(V, bc, req.addr, req.main)
        ELSE verify_body_instr(V, bc, strtab, last_strtab_entry, global_count,
                               req.addr, req.proc_addr, req.stack_height)

\* the Verifier after an iteration; an error ends verify()
VerifierBecomes(V) ==
    /\ to_verify' = V.to_verify
    /\ verified' = V.verified
    /\ procs' = V.procs
    /\ post_validate_reqs' = V.post
    /\ IF V.hang THEN vpc' = "hang" /\ UNCHANGED vresults
       ELSE IF ~V.res.ok THEN vpc' = "done" /\ vresults' = Append(vresults, V.res)
       ELSE UNCHANGED << vpc, vresults >>

\* one iteration of the first loop of verify_bytecode
VerifyBytecodeIter ==
    /\ vpc = "bytecode"
    /\ to_verify # << >>
    /\ VerifierBecomes(visit(to_verify[Len(to_verify)],
                             VState(SubSeq(to_verify, 1, Len(to_verify) - 1), verified,
                                    procs, post_validate_reqs, Ok, FALSE)))
    /\ UNCHANGED << modVars, runVars, decVars, restVars, last_strtab_entry, symtab_map >>

\* the second loop of verify_bytecode, and the return of verify()
VerifyPostValidate ==
    /\ vpc = "bytecode"
    /\ to_verify = << >>
    /\ vpc' = "done"
    /\ vresults' = Append(vresults,
                          post_validate_all(post_validate_reqs, 1, Len(bc), procs))
    /\ UNCHANGED << modVars, runVars, decVars, restVars, to_verify, verified, procs, post_validate_reqs,
                    last_strtab_entry, symtab_map >>

\* what the latest verify() call returned
Accepted == vpc = "done" /\ vresults # << >> /\ vresults[Len(vresults)].ok

(***************************************************************************)
(* Values (src/src/interpreter.cpp, class Value). A word is WordBits wide; *)
(* aint is the signed and auint the unsigned reading of a word.            *)
(***************************************************************************)
WordMod == 2 ^ WordBits

\* static_cast<aint>: the signed reading of the low WordBits bits
to_aint(x) ==
    LET r == x % WordMod
    IN  IF r >= WordMod \div 2 THEN r - WordMod ELSE r

\* the runtime's BOX and UNBOXED
BOX(x) == (2 * (x % WordMod) + 1) % WordMod
UNBOXED(w) == w % 2 = 1

\* Value::get_auint: a logical shift; Value::get_aint: an arithmetic shift
get_auint(w) == w \div 2
\* a logical shift where the arithmetic one is needed
get_aint_logical(w) == w \div 2
get_aint(w) == to_aint(w) \div 2

\* Value::from_int(aint): the two high bits cleared, the sign bit restored
from_int(v) ==
    LET masked == v % (WordMod \div 4)
        shifted == 2 * masked
    IN  (IF v < 0 THEN shifted + WordMod \div 2 ELSE shifted) + 1

\* Value::from_int(auint)
from_uint(v) == BOX(v)
from_bool(b) == IF b THEN BOX(1) ELSE BOX(0)
\* Value::from_ptr: the address of the i-th allocated object
from_ptr(i) == 2 * i

\* C++ integer division and remainder truncate towards zero
Abs(x) == IF x < 0 THEN -x ELSE x
TruncDiv(a, b) ==
    IF (a < 0) = (b < 0) THEN Abs(a) \div Abs(b) ELSE -(Abs(a) \div Abs(b))
TruncMod(a, b) == a - b * TruncDiv(a, b)

\* a product of two words modulo WordMod, computed without leaving 32 bits
MulMod(a, b) ==
    (a * (b % 256) + (((a * (b \div 256)) % WordMod) * 256)) % WordMod

\* the low 24 bits of the immediate at address a: all that a word keeps of it
imm24(b, a) == b[a + 1] + 256 * b[a + 2] + 65536 * b[a + 3]
\* the low and the high half of the immediate at address a
lo16(b, a) == b[a + 1] + 256 * b[a + 2]
hi16(b, a) == b[a + 3] + 256 * b[a + 4]

\* char to auint: char is signed on the modelled target
char_to_auint(c) == IF c >= 128 THEN (c - 256) % WordMod ELSE c

\* the values CallLread may read from the input stream
InputValues == { -1, 0, 1 }

(***************************************************************************)
(* The interpreter's registers as one record, so that a handler is a       *)
(* function from the machine before it to the machine after it.            *)
(***************************************************************************)
Cur ==
    [ st |-> rstatus, msg |-> rmsg, pc |-> pc, base |-> base, args |-> args,
      call_target |-> call_target, call_closure |-> call_closure, frames |-> frames,
      stack |-> stack, sdata |-> sdata, gc_stack_top |-> gc_stack_top, sbot |-> sbot,
      heap |-> heap, output |-> output ]

Live(M) == M.st = "run"
\* undefined behaviour: nothing is known about the run from here on
UB(M, why) == IF Live(M) THEN [ M EXCEPT !.st = "ub", !.msg = why ] ELSE M
\* an error that is built and not returned: the run goes on
ErrorNotReturned(M, why) == M
\* return std::unexpected(make_error(...))
Error(M, why) == IF Live(M) THEN [ M EXCEPT !.st = "error", !.msg = why ] ELSE M
\* an exception leaves run()
Thrown(M, why) == IF Live(M) THEN [ M EXCEPT !.st = "thrown", !.msg = why ] ELSE M

\* Frame
Frame(proc_addr, saved_pc, saved_base, saved_args, is_closure) ==
    [ proc_addr |-> proc_addr, saved_pc |-> saved_pc, saved_base |-> saved_base,
      saved_args |-> saved_args, line |-> 0, is_closure |-> is_closure ]

\* the stack slot with the 0-based index i exists
InStack(M, i) == i >= 0 /\ i < Len(M.stack)
\* the lambda top_nth: the index of the n-th value from the top (n = -1: the
\* slot push writes)
top_idx(M, n) == M.sbot - (n + 1)
HasTop(M, n) == InStack(M, top_idx(M, n))
top_nth(M, n) == M.stack[top_idx(M, n) + 1]

\* the lambda pop_n
pop_n(M, n) ==
    IF ~Live(M) THEN M
    ELSE IF n > M.sbot THEN UB(M, "stack_oob")
    ELSE [ M EXCEPT !.sbot = @ - n ]

\* the lambda push: top_nth(-1) = v, then the bottom pointer moves up
push(M, v) ==
    IF ~Live(M) THEN M
    ELSE IF ~HasTop(M, -1) THEN UB(M, "stack_oob")
    ELSE [ M EXCEPT !.stack[M.sbot + 1] = v, !.sbot = @ + 1 ]

\* the lambda read_u32_at: bc.subspan(addr, 4) must lie inside the bytecode
HasImm(a) == a >= 0 /\ a + 4 <= Len(bc)
ImmAt(a) == from_u32_le(bc, a)

\* heap objects; a string's fields are its bytes, a sexp's tag is the string
\* table offset its tag pointer points to
Obj(type, fields, tag) == [ type |-> type, fields |-> fields, tag |-> tag ]
IsObj(M, w) == ~UNBOXED(w) /\ w \div 2 >= 1 /\ w \div 2 <= Len(M.heap)
ObjOf(M, w) == M.heap[w \div 2]
\* alloc_string, alloc_array, alloc_sexp, alloc_closure
NewPtr(M) == from_ptr(Len(M.heap) + 1)
Alloc(M, o) == IF Live(M) THEN [ M EXCEPT !.heap = Append(@, o) ] ELSE M

\* a boxed word that points to no object cannot be inspected
Wild(M, w) == ~UNBOXED(w) /\ ~IsObj(M, w)
is_closure(M, w) == IsObj(M, w) /\ ObjOf(M, w).type = T_CLOSURE
is_sexp(M, w) == IsObj(M, w) /\ ObjOf(M, w).type = T_SEXP
is_string(M, w) == IsObj(M, w) /\ ObjOf(M, w).type = T_STRING
is_array(M, w) == IsObj(M, w) /\ ObjOf(M, w).type = T_ARRAY
is_aggregate(M, w) == IsObj(M, w) /\ ObjOf(M, w).type \in { T_ARRAY, T_STRING, T_SEXP }
len(M, w) == Len(ObjOf(M, w).fields)

\* an error whose message names the types of the words ws (type_to_string)
TypeError(M, ws, why) ==
    IF \E i \in 1 .. Len(ws) : Wild(M, ws[i]) THEN UB(M, "bad_pointer") ELSE Error(M, why)

\* check_strtab of this build: Module::strtab_entry_at, whose vector::at throws
StrtabThrows(s) == s >= Len(strtab)

\* the label enter_frame
enter_frame(M) ==
    IF ~Live(M) THEN M
    ELSE [ M EXCEPT
             !.frames = Append(@, Frame(M.call_target, M.pc, M.base, M.args,
                                        M.call_closure)),
             !.pc = M.call_target ]

(***************************************************************************)
(* The instruction handlers of Interpreter::run, the build without         *)
(* DYNAMIC_VERIFICATION. M is the machine after `switch (bc[pc++])`.       *)
(***************************************************************************)
\* Add .. Or
ExecBinop(M, op) ==
    IF ~(HasTop(M, 1) /\ HasTop(M, 0)) THEN UB(M, "stack_oob")
    ELSE LET v1 == top_nth(M, 1)
             v0 == top_nth(M, 0)
             ul == get_auint(v1)
             ur == get_auint(v0)
             sl == get_aint(v1)
             sr == get_aint(v0)
             P == pop_n(M, 2)
         IN  IF UNBOXED(v1) /\ UNBOXED(v0) THEN
                 CASE op = OpAdd -> push(P, from_uint(ul + ur))
                   [] op = OpSub -> push(P, from_uint(ul - ur))
                   [] op = OpMul -> push(P, from_uint(MulMod(ul, ur)))
                   [] op = OpDiv -> IF sr = 0 THEN Error(P, "division by zero")
                                    ELSE push(P, from_int(TruncDiv(sl, sr)))
                   [] op = OpMod -> IF sr = 0 THEN Error(P, "division by zero (remainder)")
                                    ELSE push(P, from_int(TruncMod(sl, sr)))
                   [] op = OpLt -> push(P, from_bool(sl < sr))
                   [] op = OpLe -> push(P, from_bool(sl <= sr))
                   [] op = OpGt -> push(P, from_bool(sl > sr))
                   [] op = OpGe -> push(P, from_bool(sl >= sr))
                   [] op = OpEq -> push(P, from_bool(sl = sr))
                   [] op = OpNe -> push(P, from_bool(sl # sr))
                   [] op = OpAnd -> push(P, from_bool(ul # 0 /\ ur # 0))
                   [] op = OpOr -> push(P, from_bool(ul # 0 \/ ur # 0))
             ELSE IF op = OpEq /\ (UNBOXED(v1) \/ UNBOXED(v0))
                 THEN push(P, from_bool(FALSE))
             ELSE TypeError(M, << v1, v0 >>, "operand types")

ExecConst(M) ==
    IF ~HasImm(M.pc) THEN UB(M, "bytecode_oob")
    ELSE push([ M EXCEPT !.pc = @ + 4 ], from_int(to_aint(imm24(bc, M.pc))))

ExecString(M) ==
    IF ~HasImm(M.pc) THEN UB(M, "bytecode_oob")
    ELSE LET s == ImmAt(M.pc).v
             M1 == [ M EXCEPT !.pc = @ + 4 ]
         IN  IF StrtabThrows(s) THEN Thrown(M1, "strtab_oob")
             ELSE push(Alloc(M1, Obj(T_STRING, strtab_entry_at(strtab, beyond, s), 0)),
                       NewPtr(M1))

\* the n values on top of the stack, the deepest first
TopValues(M, n) == [ i \in 1 .. n |-> M.stack[M.sbot - n + i] ]
HasTopValues(M, n) == n <= M.sbot /\ (n = 0 \/ M.sbot <= Len(M.stack))

ExecSexp(M) ==
    IF ~(HasImm(M.pc) /\ HasImm(M.pc + 4)) THEN UB(M, "bytecode_oob")
    ELSE LET s == ImmAt(M.pc).v
             n == ImmAt(M.pc + 4).v
             M1 == [ M EXCEPT !.pc = @ + 8 ]
         IN  IF StrtabThrows(s) THEN Thrown(M1, "strtab_oob")
             \* the object alloc_sexp(n) returned is dropped with the error
             ELSE IF n > max_member_count THEN Error(M1, "too many sexp members")
             ELSE IF ~HasTopValues(M1, n) THEN UB(M1, "stack_oob")
             ELSE push(pop_n(Alloc(M1, Obj(T_SEXP, TopValues(M1, n), s)), n), NewPtr(M1))

\* Sta that stores into a string without the range check on the byte
ExecSta_unchecked_byte(M) ==
    IF ~(HasTop(M, 2) /\ HasTop(M, 1) /\ HasTop(M, 0)) THEN UB(M, "stack_oob")
    ELSE LET aggregate == top_nth(M, 2)
             idx_v == top_nth(M, 1)
             v == top_nth(M, 0)
             idx == get_aint(idx_v)
             o == aggregate \div 2
             store(x) == [ M EXCEPT !.heap[o].fields[idx + 1] = x ]
         IN  IF Wild(M, aggregate) THEN UB(M, "bad_pointer")
             ELSE IF ~is_aggregate(M, aggregate) THEN Error(M, "cannot index")
             ELSE IF ~UNBOXED(idx_v) THEN TypeError(M, << idx_v >>, "index must be an integer")
             ELSE IF idx < 0 \/ idx >= len(M, aggregate) THEN Error(M, "index out of range")
             ELSE IF is_string(M, aggregate) THEN
                 IF ~UNBOXED(v) THEN TypeError(M, << v >>, "cannot assign into string")
                 ELSE push(pop_n(store(get_aint(v) % 256), 3), v)
             ELSE push(pop_n(store(v), 3), v)

ExecSta(M) ==
    IF ~(HasTop(M, 2) /\ HasTop(M, 1) /\ HasTop(M, 0)) THEN UB(M, "stack_oob")
    ELSE LET aggregate == top_nth(M, 2)
             idx_v == top_nth(M, 1)
             v == top_nth(M, 0)
             idx == get_aint(idx_v)
             o == aggregate \div 2
             store(x) == [ M EXCEPT !.heap[o].fields[idx + 1] = x ]
         IN  IF Wild(M, aggregate) THEN UB(M, "bad_pointer")
             ELSE IF ~is_aggregate(M, aggregate) THEN Error(M, "cannot index")
             ELSE IF ~UNBOXED(idx_v) THEN TypeError(M, << idx_v >>, "index must be an integer")
             ELSE IF idx < 0 \/ idx >= len(M, aggregate) THEN Error(M, "index out of range")
             ELSE IF is_string(M, aggregate) THEN
                 IF ~UNBOXED(v) THEN TypeError(M, << v >>, "cannot assign into string")
                 ELSE IF get_aint(v) < 0 \/ get_aint(v) > 255
                     THEN Error(M, "does not fit into a byte")
                 ELSE push(pop_n(store(get_aint(v)), 3), v)
             ELSE push(pop_n(store(v), 3), v)

ExecJmp(M) ==
    IF ~HasImm(M.pc) THEN UB(M, "bytecode_oob")
    ELSE [ M EXCEPT !.pc = ImmAt(M.pc).v ]

\* End, Ret that end the run in whatever frame they execute
ExecEnd_in_any_frame(M) ==
    IF ~HasTop(M, 0) THEN UB(M, "stack_oob")
    ELSE LET frame == M.frames[Len(M.frames)]
             bottom == M.base - M.args - (IF frame.is_closure THEN 1 ELSE 0)
         IN  IF bottom < 0 THEN UB(M, "stack_oob")
             ELSE [ M EXCEPT !.sbot = bottom, !.st = "ok" ]

\* End, Ret
ExecEnd(M) ==
    IF ~HasTop(M, 0) THEN UB(M, "stack_oob")
    ELSE LET v == top_nth(M, 0)
             frame == M.frames[Len(M.frames)]
             bottom == M.base - M.args - (IF frame.is_closure THEN 1 ELSE 0)
             M1 == [ M EXCEPT !.sbot = bottom ]
         IN  IF bottom < 0 THEN UB(M, "stack_oob")
             ELSE IF frame.saved_pc = -1 THEN [ M1 EXCEPT !.st = "ok" ]
             ELSE LET M2 == push(M1, v)
                  IN  IF ~Live(M2) THEN M2
                      ELSE [ M2 EXCEPT !.pc = frame.saved_pc, !.base = frame.saved_base,
                                       !.args = frame.saved_args,
                                       !.frames = SubSeq(@, 1, Len(@) - 1) ]

ExecDrop(M) == pop_n(M, 1)

ExecDup(M) == IF ~HasTop(M, 0) THEN UB(M, "stack_oob") ELSE push(M, top_nth(M, 0))

ExecElem(M) ==
    IF ~Live(M) THEN M
    ELSE IF ~(HasTop(M, 1) /\ HasTop(M, 0)) THEN UB(M, "stack_oob")
    ELSE LET aggregate == top_nth(M, 1)
             idx_v == top_nth(M, 0)
             idx == get_aint(idx_v)
             x == ObjOf(M, aggregate).fields[idx + 1]
         IN  IF Wild(M, aggregate) THEN UB(M, "bad_pointer")
             ELSE IF ~is_aggregate(M, aggregate) THEN Error(M, "cannot index")
             ELSE IF ~UNBOXED(idx_v) THEN TypeError(M, << idx_v >>, "index must be an integer")
             ELSE IF idx < 0 \/ idx >= len(M, aggregate) THEN Error(M, "index out of range")
             ELSE IF is_string(M, aggregate)
                 THEN push(pop_n(M, 2), from_uint(char_to_auint(x)))
             ELSE push(pop_n(M, 2), x)

\* case Instr::Swap has no break: control falls through into case Instr::Elem
ExecSwap(M) ==
    IF ~(HasTop(M, 1) /\ HasTop(M, 0)) THEN UB(M, "stack_oob")
    ELSE LET lhs == top_nth(M, 1)
             rhs == top_nth(M, 0)
         IN  ExecElem(push(push(pop_n(M, 2), rhs), lhs))

\* the lambdas global (kind 0), local (1), arg (2) and capture (3): whether the
\* word they point to exists, its value, and the machine after a store to it
slot_idx(M, kind, m) ==
    CASE kind = 0 -> m
      [] kind = 1 -> M.base + m
      [] kind = 2 -> M.base - M.args + m
\* capture that takes the first argument of the frame for its closure
closure_of_first_argument(M) == M.stack[M.base - M.args + 1]
\* capture: the closure of the frame, the word at base - args - 1
closure_of(M) == M.stack[M.base - M.args]
var_ok(M, kind, imm) ==
    /\ ~imm.hi
    /\ imm.v <= Len(M.stack) + 65535
    /\ IF kind = 3
           THEN /\ InStack(M, M.base - M.args - 1)
                /\ IsObj(M, closure_of(M))
                /\ imm.v + 1 < Len(ObjOf(M, closure_of(M)).fields)
           ELSE InStack(M, slot_idx(M, kind, imm.v))
var_get(M, kind, imm) ==
    IF kind = 3 THEN ObjOf(M, closure_of(M)).fields[imm.v + 2]
    ELSE M.stack[slot_idx(M, kind, imm.v) + 1]
var_set(M, kind, imm, v) ==
    IF kind = 3 THEN [ M EXCEPT !.heap[closure_of(M) \div 2].fields[imm.v + 2] = v ]
    ELSE [ M EXCEPT !.stack[slot_idx(M, kind, imm.v) + 1] = v ]
var_why(kind) == IF kind = 3 THEN "capture_oob" ELSE "stack_oob"

\* LdG, LdL, LdA, LdC
ExecLd(M, kind) ==
    IF ~HasImm(M.pc) THEN UB(M, "bytecode_oob")
    ELSE LET m == ImmAt(M.pc)
             M1 == [ M EXCEPT !.pc = @ + 4 ]
         IN  IF ~var_ok(M1, kind, m) THEN UB(M1, var_why(kind))
             ELSE push(M1, var_get(M1, kind, m))

\* StG, StL, StA, StC
ExecSt(M, kind) ==
    IF ~HasImm(M.pc) THEN UB(M, "bytecode_oob")
    ELSE LET m == ImmAt(M.pc)
             M1 == [ M EXCEPT !.pc = @ + 4 ]
         IN  IF ~var_ok(M1, kind, m) THEN UB(M1, var_why(kind))
             ELSE IF ~HasTop(M1, 0) THEN UB(M1, "stack_oob")
             ELSE var_set(M1, kind, m, top_nth(M1, 0))

\* CjmpZ (onZero) and CjmpNz
ExecCjmp(M, onZero) ==
    IF ~HasImm(M.pc) THEN UB(M, "bytecode_oob")
    ELSE LET l == ImmAt(M.pc).v
             M1 == [ M EXCEPT !.pc = @ + 4 ]
         IN  IF ~HasTop(M1, 0) THEN UB(M1, "stack_oob")
             ELSE LET cond == top_nth(M1, 0)
                  IN  IF ~UNBOXED(cond) THEN TypeError(M1, << cond >>, "branch condition")
                      ELSE pop_n(IF (get_auint(cond) = 0) = onZero
                                     THEN [ M1 EXCEPT !.pc = l ] ELSE M1, 1)

\* Begin, Cbegin; moved: whether stack.resize had to take a new buffer
ExecBegin(M, moved) ==
    IF ~(HasImm(M.pc) /\ HasImm(M.pc + 4)) THEN UB(M, "bytecode_oob")
    ELSE LET proc_stack_size == hi16(bc, M.pc)
             params == lo16(bc, M.pc)
             locals == ImmAt(M.pc + 4)
             nbase == M.sbot
             new_size == nbase + locals.v + proc_stack_size
             M1 == [ M EXCEPT !.pc = @ + 8, !.base = nbase ]
         IN  IF locals.hi \/ locals.v > max_stack_size - nbase - proc_stack_size
                 THEN Error(M1, "stack overflow")
             ELSE [ M1 EXCEPT
                      !.stack = IF Len(@) < new_size
                                    THEN @ \o [ i \in 1 .. new_size - Len(@) |-> BOX(0) ]
                                    ELSE @,
                      !.sdata = IF Len(M.stack) < new_size /\ moved THEN @ + 1 ELSE @,
                      !.args = params,
                      !.gc_stack_top =
                          IF Len(M.stack) < new_size /\ moved THEN M.sdata + 1 ELSE M.sdata,
                      !.sbot = nbase + locals.v ]

RECURSIVE closure_captures(_, _, _, _)
\* the loop of case Instr::Closure from descriptor i on; o is the closure object
closure_captures(M, o, i, n) ==
    IF ~Live(M) \/ i = n THEN M
    ELSE LET kind == bc[M.pc + 1]
             m == ImmAt(M.pc + 1)
             M1 == [ M EXCEPT !.pc = @ + 5 ]
         IN  IF kind > 3 THEN UB(M1, "illegal_varspec")
             ELSE IF ~var_ok(M1, kind, m) THEN UB(M1, var_why(kind))
             ELSE closure_captures(
                      [ M1 EXCEPT !.heap[o].fields[i + 2] = var_get(M1, kind, m) ],
                      o, i + 1, n)

ExecClosure(M) ==
    IF ~(HasImm(M.pc) /\ HasImm(M.pc + 4)) THEN UB(M, "bytecode_oob")
    ELSE LET l == imm24(bc, M.pc)
             n == ImmAt(M.pc + 4)
             M1 == [ M EXCEPT !.pc = @ + 8 ]
             o == Len(M.heap) + 1
         IN  \* more descriptors than the bytecode has bytes left: the loop
             \* reads past the buffer
             IF n.hi \/ n.v > (Len(bc) - M1.pc) \div 5 THEN UB(M1, "bytecode_oob")
             ELSE closure_captures(
                      push(Alloc(M1, Obj(T_CLOSURE,
                                         << from_uint(l) >> \o [ i \in 1 .. n.v |-> BOX(0) ],
                                         0)),
                           NewPtr(M1)),
                      o, 0, n.v)

ExecCallC(M) ==
    IF ~HasImm(M.pc) THEN UB(M, "bytecode_oob")
    ELSE LET n == ImmAt(M.pc)
             M1 == [ M EXCEPT !.pc = @ + 4 ]
         IN  IF n.hi \/ n.v > Len(M1.stack) \/ ~HasTop(M1, n.v) THEN UB(M1, "stack_oob")
             ELSE LET closure == top_nth(M1, n.v)
                      l == get_auint(ObjOf(M1, closure).fields[1])
                  IN  IF Wild(M1, closure) THEN UB(M1, "bad_pointer")
                      ELSE IF ~is_closure(M1, closure) THEN Error(M1, "cannot call")
                      ELSE IF ~HasImm(l + 1) THEN UB(M1, "bytecode_oob")
                      ELSE IF lo16(bc, l + 1) # n.v THEN Error(M1, "argument count")
                      ELSE enter_frame([ M1 EXCEPT !.call_target = l,
                                                   !.call_closure = TRUE ])

\* check_begin does nothing and n is read only to be skipped
ExecCall(M) ==
    IF ~(HasImm(M.pc) /\ HasImm(M.pc + 4)) THEN UB(M, "bytecode_oob")
    ELSE enter_frame([ M EXCEPT !.pc = @ + 8, !.call_target = ImmAt(M.pc).v,
                                !.call_closure = FALSE ])

ExecTag(M) ==
    IF ~(HasImm(M.pc) /\ HasImm(M.pc + 4)) THEN UB(M, "bytecode_oob")
    ELSE LET s == ImmAt(M.pc).v
             n == ImmAt(M.pc + 4)
             M1 == [ M EXCEPT !.pc = @ + 8 ]
         IN  IF ~HasTop(M1, 0) THEN UB(M1, "stack_oob")
             ELSE LET v == top_nth(M1, 0)
                  IN  IF StrtabThrows(s) THEN Thrown(M1, "strtab_oob")
                      ELSE IF Wild(M1, v) THEN UB(M1, "bad_pointer")
                      ELSE IF is_sexp(M1, v)
                          THEN push(pop_n(M1, 1),
                                    from_bool(/\ ~n.hi
                                              /\ len(M1, v) = n.v
                                              /\ strtab_entry_at(strtab, beyond, s)
                                                   = strtab_entry_at(strtab, beyond,
                                                                     ObjOf(M1, v).tag)))
                      ELSE push(pop_n(M1, 1), from_bool(FALSE))

ExecArray(M) ==
    IF ~HasImm(M.pc) THEN UB(M, "bytecode_oob")
    ELSE LET n == ImmAt(M.pc)
             M1 == [ M EXCEPT !.pc = @ + 4 ]
         IN  IF ~HasTop(M1, 0) THEN UB(M1, "stack_oob")
             ELSE LET v == top_nth(M1, 0)
                  IN  IF Wild(M1, v) THEN UB(M1, "bad_pointer")
                      ELSE push(pop_n(M1, 1),
                                from_bool(is_array(M1, v) /\ ~n.hi /\ len(M1, v) = n.v))

(***************************************************************************)
(* Value::stringify.                                                       *)
(***************************************************************************)
RECURSIVE digits(_)
digits(n) == IF n < 10 THEN << 48 + n >> ELSE digits(n \div 10) \o << 48 + (n % 10) >>
\* operator<<(aint)
decimal(v) == IF v < 0 THEN << 45 >> \o digits(-v) ELSE digits(v)

\* whether stringify_to returns: it follows every pointer it meets, and an
\* object that contains itself makes it recurse without end
RECURSIVE can_stringify(_, _, _)
can_stringify(M, w, fuel) ==
    \/ UNBOXED(w)
    \/ /\ IsObj(M, w)
       /\ fuel > 0
       /\ \/ ObjOf(M, w).type \in { T_STRING, T_CLOSURE }
          \/ \A i \in 1 .. len(M, w) : can_stringify(M, ObjOf(M, w).fields[i], fuel - 1)

RECURSIVE stringify_to(_, _)
RECURSIVE stringify_fields(_, _, _)
stringify_fields(M, fs, i) ==
    IF i > Len(fs) THEN << >>
    ELSE (IF i > 1 THEN << 44, 32 >> ELSE << >>) \o stringify_to(M, fs[i])
           \o stringify_fields(M, fs, i + 1)

stringify_to(M, w) ==
    IF UNBOXED(w) THEN decimal(get_aint(w))
    ELSE LET o == ObjOf(M, w)
         IN  CASE o.type = T_ARRAY -> << 91 >> \o stringify_fields(M, o.fields, 1) \o << 93 >>
               [] o.type = T_CLOSURE -> << 60, 102, 117, 110, 99, 116, 105, 111, 110, 62 >>
               [] o.type = T_STRING -> << 34 >> \o c_str(o.fields, 1) \o << 34 >>
               [] o.type = T_SEXP ->
                    strtab_entry_at(strtab, beyond, o.tag)
                      \o (IF Len(o.fields) > 0
                              THEN << 32, 40 >> \o stringify_fields(M, o.fields, 1) \o << 41 >>
                              ELSE << >>)

\* an acyclic value nests no deeper than the heap has objects
Stringifiable(M, w) == can_stringify(M, w, Len(M.heap) + 1)

ExecFail(M) ==
    IF ~(HasImm(M.pc) /\ HasImm(M.pc + 4)) THEN UB(M, "bytecode_oob")
    ELSE LET M1 == [ M EXCEPT !.pc = @ + 8 ]
         IN  IF ~HasTop(M1, 0) THEN UB(M1, "stack_oob")
             ELSE IF ~Stringifiable(M1, top_nth(M1, 0)) THEN UB(pop_n(M1, 1), "bad_pointer")
             ELSE Error(pop_n(M1, 1), "match failure")

ExecLine(M) ==
    IF ~HasImm(M.pc) THEN UB(M, "bytecode_oob")
    ELSE [ M EXCEPT !.pc = @ + 4, !.frames[Len(M.frames)].line = ImmAt(M.pc).v ]

ExecPattEqStr(M) ==
    IF ~(HasTop(M, 1) /\ HasTop(M, 0)) THEN UB(M, "stack_oob")
    ELSE LET lhs == top_nth(M, 1)
             rhs == top_nth(M, 0)
         IN  IF Wild(M, lhs) \/ (is_string(M, lhs) /\ Wild(M, rhs)) THEN UB(M, "bad_pointer")
             ELSE push(pop_n(M, 2),
                       from_bool(/\ is_string(M, lhs)
                                 /\ is_string(M, rhs)
                                 /\ c_str(ObjOf(M, lhs).fields, 1)
                                      = c_str(ObjOf(M, rhs).fields, 1)))

\* PattString .. PattFun
ExecPatt(M, op) ==
    IF ~HasTop(M, 0) THEN UB(M, "stack_oob")
    ELSE LET v == top_nth(M, 0)
             r == CASE op = OpPattString -> is_string(M, v)
                    [] op = OpPattArray -> is_array(M, v)
                    [] op = OpPattSexp -> is_sexp(M, v)
                    [] op = OpPattRef -> ~UNBOXED(v)
                    [] op = OpPattVal -> UNBOXED(v)
                    [] op = OpPattFun -> is_closure(M, v)
         IN  IF Wild(M, v) /\ op \notin { OpPattRef, OpPattVal } THEN UB(M, "bad_pointer")
             ELSE push(pop_n(M, 1), from_bool(r))

\* the prompt CallLread writes
Prompt == << 32, 62, 32 >>

ExecCallLread(M, v) == push([ M EXCEPT !.output = Append(@, Prompt) ], from_int(v))

ExecCallLwrite(M) ==
    IF ~HasTop(M, 0) THEN UB(M, "stack_oob")
    ELSE LET v == top_nth(M, 0)
         IN  IF ~UNBOXED(v) THEN TypeError(M, << v >>, "cannot write")
             ELSE push([ pop_n(M, 1) EXCEPT !.output = Append(@, decimal(get_aint(v)) \o << 10 >>) ],
                       BOX(0))

ExecCallLlength(M) ==
    IF ~HasTop(M, 0) THEN UB(M, "stack_oob")
    ELSE LET v == top_nth(M, 0)
         IN  IF Wild(M, v) THEN UB(M, "bad_pointer")
             ELSE IF ~is_aggregate(M, v) THEN Error(M, "cannot get the length")
             ELSE push(pop_n(M, 1), from_int(to_aint(len(M, v))))

ExecCallLstring(M) ==
    IF ~HasTop(M, 0) THEN UB(M, "stack_oob")
    ELSE LET v == top_nth(M, 0)
         IN  IF ~Stringifiable(M, v) THEN UB(M, "bad_pointer")
             ELSE push(pop_n(Alloc(M, Obj(T_STRING, stringify_to(M, v), 0)), 1), NewPtr(M))

ExecCallBarray(M) ==
    IF ~HasImm(M.pc) THEN UB(M, "bytecode_oob")
    ELSE LET n == ImmAt(M.pc)
             M1 == [ M EXCEPT !.pc = @ + 4 ]
         IN  IF n.hi \/ n.v > max_elem_count THEN Error(M1, "too many array elements")
             ELSE IF ~HasTopValues(M1, n.v) THEN UB(M1, "stack_oob")
             ELSE push(pop_n(Alloc(M1, Obj(T_ARRAY, TopValues(M1, n.v), 0)), n.v), NewPtr(M1))

(***************************************************************************)
(* The decoder (src/src/decode.hpp). One call of Decoder::next delivers a  *)
(* sequence of events to its listener and moves the cursor.                *)
(***************************************************************************)
\* Decoder::Result
InstrStart(addr, opcode) == [ ev |-> "InstrStart", addr |-> addr, opcode |-> opcode ]
InstrEnd(addr, start) == [ ev |-> "InstrEnd", addr |-> addr, start |-> start ]
Imm32(addr, imm) == [ ev |-> "Imm32", addr |-> addr, imm |-> imm ]
ImmVarspec(addr, kind, idx) == [ ev |-> "ImmVarspec", addr |-> addr, kind |-> kind, idx |-> idx ]
DecodeError(addr, kind) == [ ev |-> "Error", addr |-> addr, kind |-> kind ]

\* what a read returns: the cursor after it, and the immediate or the error
Read(p, ok, val) == [ pos |-> p, ok |-> ok, val |-> val ]

\* a read_imm32 that, at the end of the buffer, moves the cursor by the size of
\* the immediate instead of to the end
read_imm32_past_end(b, p) ==
    IF p + 4 > Len(b)
        THEN Read(p + 4, FALSE, DecodeError(p, "Eof"))
        ELSE Read(p + 4, TRUE, Imm32(p, from_u32_le(b, p)))

\* Decoder::read_imm32 with the cursor at p (the guard -1U - pos_ <= 4 is false
\* for every cursor inside a buffer of the sizes modelled)
read_imm32(b, p) ==
    IF p + 4 > Len(b)
        THEN Read(Len(b), FALSE, DecodeError(Len(b), "Eof"))
        ELSE Read(p + 4, TRUE, Imm32(p, from_u32_le(b, p)))

\* Decoder::read_imm_varspec with the cursor at p
read_imm_varspec(b, p, ignore_hi) ==
    IF p + 5 > Len(b)
        THEN Read(Len(b), FALSE, DecodeError(Len(b), "Eof"))
    ELSE IF (IF ignore_hi THEN b[p + 1] % 16 ELSE b[p + 1]) > 3
        THEN Read(p + 1, FALSE, DecodeError(p, "IllegalVarKind"))
    ELSE Read(p + 5, TRUE,
              ImmVarspec(p, IF ignore_hi THEN b[p + 1] % 16 ELSE b[p + 1],
                         from_u32_le(b, p + 1)))

\* next() under way: the cursor, the events delivered, and r (no error: << >>)
Decoding(p, out, r) == [ pos |-> p, out |-> out, r |-> r ]

\* `.transform(listener)` on what a read returned: an immediate is delivered,
\* an error is kept in r; `.and_then` skips the read when r holds an error
delivered(D, rd) ==
    IF D.r # << >> THEN D
    ELSE IF rd.ok THEN Decoding(rd.pos, Append(D.out, rd.val), << >>)
    ELSE Decoding(rd.pos, D.out, << rd.val >>)

then_imm32(b, D) == delivered(D, read_imm32(b, D.pos))
then_varspec(b, D, ignore_hi) == delivered(D, read_imm_varspec(b, D.pos, ignore_hi))

\* the loop of the Closure case: for (i = 0; i < n.imm && r; ++i)
RECURSIVE closure_varspecs(_, _, _, _)
closure_varspecs(b, D, i, n) ==
    IF i >= n \/ D.r # << >> THEN D
    ELSE closure_varspecs(b, then_varspec(b, D, FALSE), i + 1, n)

closure_case(b, D) ==
    IF D.r # << >> THEN D
    ELSE closure_varspecs(b, D, 0, D.out[Len(D.out)].imm.v)

\* the groups of cases of the switch of next()
DecodeNoImm ==
    BinopOpcodes \cup PattOpcodes
      \cup { OpSti, OpSta, OpEnd, OpRet, OpDrop, OpDup, OpSwap, OpElem, OpCallLread,
             OpCallLwrite, OpCallLlength, OpCallLstring, OpEof }
DecodeOneImm ==
    { OpConst, OpString, OpJmp, OpCjmpZ, OpCjmpNz, OpCallC, OpArray, OpCallBarray, OpLine }
DecodeTwoImm == { OpSexp, OpBegin, OpCbegin, OpCall, OpTag, OpFail }
DecodeVarspec ==
    { OpLdG, OpLdL, OpLdA, OpLdC, OpLdaG, OpLdaL, OpLdaA, OpLdaC, OpStG, OpStL, OpStA, OpStC }

\* the switch: D is the decoder after InstrStart was delivered
decode_switch(b, D, op_start, opcode) ==
    CASE opcode \in DecodeNoImm -> D
      [] opcode \in DecodeOneImm -> then_imm32(b, D)
      [] opcode \in DecodeTwoImm -> then_imm32(b, then_imm32(b, D))
      [] opcode \in DecodeVarspec -> then_varspec(b, Decoding(D.pos - 1, D.out, D.r), TRUE)
      [] opcode = OpClosure -> closure_case(b, then_imm32(b, then_imm32(b, D)))
      [] OTHER -> Decoding(D.pos, Append(D.out, DecodeError(op_start, "IllegalOp")), D.r)

\* an end of next() that returns once the error is delivered
decode_finish_early(D, op_start) ==
    IF D.r # << >> THEN [ pos |-> D.pos, out |-> D.out \o D.r ]
    ELSE [ pos |-> D.pos, out |-> D.out \o << InstrEnd(D.pos, op_start) >> ]

\* the end of next(): the error r holds, then InstrEnd
decode_finish(D, op_start) ==
    [ pos |-> D.pos, out |-> (D.out \o D.r) \o << InstrEnd(D.pos, op_start) >> ]

\* Decoder::next with the cursor at p: the cursor after it and the events
Decoder_next(b, p) ==
    IF p >= Len(b) THEN [ pos |-> p, out |-> << DecodeError(p, "Eof") >> ]
    ELSE decode_finish(decode_switch(b, Decoding(p + 1, << InstrStart(p, b[p + 1]) >>, << >>),
                                     p, b[p + 1]),
                       p)

InitDecoder ==
    /\ dpos = 0
    /\ devents = << >>

\* find_idioms has not been called
InitIdiom ==
    /\ ipc = "idle"
    /\ info = << >>
    /\ to_process = << >>
    /\ reachable = { }
    /\ split_points = { }
    /\ walk_it = 0
    /\ occurrences = << >>
    /\ idioms = << >>

\* no input file
InitNoLoader ==
    /\ file = << >>
    /\ lpc = "done"
    /\ lpos = 0
    /\ lhdr = [ strtab_size |-> 0, symtab_entries |-> 0, address |-> 0 ]
    /\ lmod = [ global_count |-> 0, symtab |-> << >>, strtab |-> << >>, bytecode |-> << >> ]
    /\ lres = Ok

\* no driver: the module is handed to verify() and run() directly, in a build
\* without DYNAMIC_VERIFICATION
InitNoMain ==
    /\ mode = "run"
    /\ dynamic_verification = FALSE
    /\ mpc = "none"
    /\ exit_code = 0

InitRest == InitIdiom /\ InitNoLoader /\ InitNoMain

\* a call of next(listener)
DecoderNext ==
    /\ dpos' = Decoder_next(bc, dpos).pos
    /\ devents' = Decoder_next(bc, dpos).out
    /\ UNCHANGED << modVars, verVars, runVars, restVars >>

(***************************************************************************)
(* Interpreter::run as actions: the start of run() and one action per case *)
(* (or family of cases) of the switch.                                     *)
(***************************************************************************)
\* the callers of run(): main.cpp's call, and the calls a program embedding the
\* interpreter makes from its threads
MainCaller == 0
Callers == 0 .. MaxOtherCallers
Caller(thread, st) == [ thread |-> thread, st |-> st ]
GcEvent(who, ev) == [ who |-> who, ev |-> ev ]

InitRun ==
    /\ rstatus = "idle"
    /\ rmsg = ""
    /\ pc = 0
    /\ base = 0
    /\ args = 0
    /\ call_target = 0
    /\ call_closure = FALSE
    /\ frames = << >>
    /\ stack = << >>
    /\ sdata = 0
    /\ gc_stack_top = 0
    /\ sbot = 0
    /\ heap = << >>
    /\ output = << >>
    /\ running = FALSE
    /\ gc = "off"
    /\ steps = 0
    /\ trace = { }
    /\ act = [ a \in Callers |-> Caller(a, "none") ]
    /\ owner = MainCaller
    /\ gcev = << >>
    /\ calls = << >>

Init == InitModule /\ InitVerifier /\ InitRun /\ InitDecoder /\ InitRest

\* the number of locals of the procedure at p, as its Begin declares it
LocalsOf(p) ==
    IF p >= 0 /\ p < Len(bc) /\ bc[p + 1] \in { OpBegin, OpCbegin } /\ HasImm(p + 5)
        THEN ImmAt(p + 5).v
        ELSE 0
\* the procedure of the current frame, and the operand-stack height relative
\* to the frame's locals
CurProc == frames[Len(frames)].proc_addr
Height == sbot - base - LocalsOf(CurProc)
AtInstr == rstatus = "run" /\ pc >= 0 /\ pc < Len(bc)
AtBodyInstr == AtInstr /\ bc[pc + 1] \notin { OpBegin, OpCbegin }

\* a guard that sets the flag without looking at it
UniqueRunnerGuard_store(r) == [ thrown |-> FALSE, running |-> TRUE ]
\* UniqueRunnerGuard::UniqueRunnerGuard: running.exchange(true) reads and sets
\* the flag in one atomic step, and the constructor throws if it was set
UniqueRunnerGuard(r) == [ thrown |-> r, running |-> TRUE ]

\* a guard whose flag is cleared on the successful return only
UniqueRunnerGuard_dtor_on_success(r, st) == IF st = "ok" THEN FALSE ELSE r
\* UniqueRunnerGuard::~UniqueRunnerGuard, run when run() returns a value or an
\* error: running = false
UniqueRunnerGuard_dtor(r, st) == IF st \in { "ok", "error" } THEN FALSE ELSE r

\* a collector that is shut down on the successful return only
GcGuard_dtor_on_success(log, a, st) ==
    IF st = "ok" THEN Append(log, GcEvent(a, "__shutdown")) ELSE log
\* GcGuard::~GcGuard, run when run() returns a value or an error
GcGuard_dtor(log, a, st) ==
    IF st \in { "ok", "error" } THEN Append(log, GcEvent(a, "__shutdown")) ELSE log

\* what run() does between the guard and the first instruction, in order:
\* __gc_stack_top and __gc_stack_bottom are set, GcGuard calls __init, the
\* frame of main is pushed
run_prologue(a) ==
    << GcEvent(a, "gc_stack"), GcEvent(a, "__init"), GcEvent(a, "enter_frame") >>

\* the machine becomes M; run() returning destroys the GcGuard and then the
\* UniqueRunnerGuard
Commit(M) ==
    /\ rstatus' = M.st
    /\ rmsg' = M.msg
    /\ pc' = M.pc
    /\ base' = M.base
    /\ args' = M.args
    /\ call_target' = M.call_target
    /\ call_closure' = M.call_closure
    /\ frames' = M.frames
    /\ stack' = M.stack
    /\ sdata' = M.sdata
    /\ gc_stack_top' = M.gc_stack_top
    /\ sbot' = M.sbot
    /\ heap' = M.heap
    /\ output' = M.output
    /\ running' = UniqueRunnerGuard_dtor(running, M.st)
    /\ gc' = IF M.st \in { "ok", "error" } THEN "down" ELSE gc
    /\ steps' = steps + 1
    /\ trace' = IF AtBodyInstr
                    THEN trace \cup { [ addr |-> pc, proc |-> CurProc, height |-> Height ] }
                    ELSE trace
    /\ act' = IF M.st \in { "ok", "error" }
                  THEN [ act EXCEPT ![owner].st = "returned" ]
                  ELSE act
    /\ owner' = owner
    /\ gcev' = GcGuard_dtor(Append(gcev, GcEvent(owner, "instr")), owner, M.st)
    /\ calls' = IF Len(M.frames) > Len(frames) THEN Append(calls, Cur)
                ELSE IF Len(M.frames) < Len(frames) THEN SubSeq(calls, 1, Len(calls) - 1)
                ELSE calls
    /\ UNCHANGED << modVars, verVars, decVars, restVars >>

\* caller a calls run() on thread t. The guard is the first statement of run():
\* a rejected call has done nothing else. The rest of the prologue is private
\* to the call that passed, up to the first instruction.
Activate(a, t) ==
    /\ act[a].st = "none"
    /\ Accepted
    /\ IF UniqueRunnerGuard(running).thrown
           THEN /\ act' = [ act EXCEPT ![a] = Caller(t, "rejected") ]
                /\ UNCHANGED << rstatus, rmsg, pc, base, args, call_target, call_closure,
                                frames, stack, sdata, gc_stack_top, sbot, heap, output,
                                running, gc, steps, trace, owner, gcev, calls >>
           ELSE /\ running' = UniqueRunnerGuard(running).running
                /\ act' = [ act EXCEPT ![a] = Caller(t, "past") ]
                /\ owner' = a
                /\ stack' = [ i \in 1 .. global_count + 2 |-> BOX(0) ]
                /\ sdata' = sdata + 1
                /\ args' = 2
                /\ base' = global_count + 2
                /\ gc_stack_top' = sdata + 1
                /\ sbot' = global_count + 2
                /\ gc' = "on"
                /\ gcev' = gcev \o run_prologue(a)
                /\ call_target' = 0
                /\ call_closure' = FALSE
                \* enter_frame with pc = uint32_t(-1)
                /\ frames' = << Frame(0, -1, global_count + 2, 2, FALSE) >>
                /\ pc' = 0
                /\ rstatus' = "run"
                /\ rmsg' = ""
                /\ heap' = << >>
                /\ steps' = 0
                /\ calls' = << >>
                /\ UNCHANGED << output, trace >>
    /\ UNCHANGED << modVars, verVars, decVars, restVars >>

\* main.cpp runs the interpreter on a module only after verify() accepted it
Run == Activate(MainCaller, 0)

\* another call of run() on the same Interpreter: on the main thread (from
\* inside the running activation, or before or after it) or on another thread
OtherRun == \E a \in Callers \ { MainCaller } : \E t \in 0 .. a : Activate(a, t)

\* switch (bc[pc++]) on an opcode of ops
Fetch(ops) ==
    /\ rstatus = "run"
    /\ steps < MaxSteps
    /\ pc >= 0
    /\ pc < Len(bc)
    /\ bc[pc + 1] \in ops
Fetched == [ Cur EXCEPT !.pc = pc + 1 ]

\* bc[pc] with pc outside the bytecode
StepFetchOutside ==
    /\ rstatus = "run"
    /\ steps < MaxSteps
    /\ ~(pc >= 0 /\ pc < Len(bc))
    /\ Commit(UB(Cur, "bytecode_oob"))

StepBinop == Fetch(BinopOpcodes) /\ Commit(ExecBinop(Fetched, bc[pc + 1]))
StepConst == Fetch({ OpConst }) /\ Commit(ExecConst(Fetched))
StepString == Fetch({ OpString }) /\ Commit(ExecString(Fetched))
StepSexp == Fetch({ OpSexp }) /\ Commit(ExecSexp(Fetched))
StepSta == Fetch({ OpSta }) /\ Commit(ExecSta(Fetched))
StepJmp == Fetch({ OpJmp }) /\ Commit(ExecJmp(Fetched))
StepEnd == Fetch({ OpEnd, OpRet }) /\ Commit(ExecEnd(Fetched))
StepDrop == Fetch({ OpDrop }) /\ Commit(ExecDrop(Fetched))
StepDup == Fetch({ OpDup }) /\ Commit(ExecDup(Fetched))
StepSwap == Fetch({ OpSwap }) /\ Commit(ExecSwap(Fetched))
StepElem == Fetch({ OpElem }) /\ Commit(ExecElem(Fetched))
StepLd == Fetch({ OpLdG, OpLdL, OpLdA, OpLdC }) /\ Commit(ExecLd(Fetched, bc[pc + 1] - OpLdG))
StepSt == Fetch({ OpStG, OpStL, OpStA, OpStC }) /\ Commit(ExecSt(Fetched, bc[pc + 1] - OpStG))
StepCjmp ==
    Fetch({ OpCjmpZ, OpCjmpNz }) /\ Commit(ExecCjmp(Fetched, bc[pc + 1] = OpCjmpZ))
StepBegin ==
    /\ Fetch({ OpBegin, OpCbegin })
    /\ \E moved \in BOOLEAN : Commit(ExecBegin(Fetched, moved))
StepClosure == Fetch({ OpClosure }) /\ Commit(ExecClosure(Fetched))
StepCallC == Fetch({ OpCallC }) /\ Commit(ExecCallC(Fetched))
StepCall == Fetch({ OpCall }) /\ Commit(ExecCall(Fetched))
StepTag == Fetch({ OpTag }) /\ Commit(ExecTag(Fetched))
StepArray == Fetch({ OpArray }) /\ Commit(ExecArray(Fetched))
StepFail == Fetch({ OpFail }) /\ Commit(ExecFail(Fetched))
StepLine == Fetch({ OpLine }) /\ Commit(ExecLine(Fetched))
StepPattEqStr == Fetch({ OpPattEqStr }) /\ Commit(ExecPattEqStr(Fetched))
StepPatt ==
    Fetch(PattOpcodes \ { OpPattEqStr }) /\ Commit(ExecPatt(Fetched, bc[pc + 1]))
StepCallLread ==
    /\ Fetch({ OpCallLread })
    /\ \E v \in InputValues : Commit(ExecCallLread(Fetched, v))
StepCallLwrite == Fetch({ OpCallLwrite }) /\ Commit(ExecCallLwrite(Fetched))
StepCallLlength == Fetch({ OpCallLlength }) /\ Commit(ExecCallLlength(Fetched))
StepCallLstring == Fetch({ OpCallLstring }) /\ Commit(ExecCallLstring(Fetched))
StepCallBarray == Fetch({ OpCallBarray }) /\ Commit(ExecCallBarray(Fetched))

\* the opcodes the switch has a handler for
HandledOpcodes ==
    BinopOpcodes
      \cup { OpConst, OpString, OpSexp, OpSta, OpJmp, OpEnd, OpRet, OpDrop, OpDup, OpSwap,
             OpElem, OpLdG, OpLdL, OpLdA, OpLdC, OpStG, OpStL, OpStA, OpStC, OpCjmpZ,
             OpCjmpNz, OpBegin, OpCbegin, OpClosure, OpCallC, OpCall, OpTag, OpArray,
             OpFail, OpLine, OpCallLread, OpCallLwrite, OpCallLlength, OpCallLstring,
             OpCallBarray }
      \cup PattOpcodes

\* Sti, LdaG .. LdaC, Eof and default: std::unreachable()
StepIllegal == Fetch((0 .. 255) \ HandledOpcodes) /\ Commit(UB(Fetched, "illegal_opcode"))

Next ==
    \/ VerifyCall
    \/ VerifyBytecodeIter
    \/ VerifyPostValidate
    \/ Run
    \/ StepFetchOutside
    \/ StepBinop
    \/ StepConst
    \/ StepString
    \/ StepSexp
    \/ StepSta
    \/ StepJmp
    \/ StepEnd
    \/ StepDrop
    \/ StepDup
    \/ StepSwap
    \/ StepElem
    \/ StepLd
    \/ StepSt
    \/ StepCjmp
    \/ StepBegin
    \/ StepClosure
    \/ StepCallC
    \/ StepCall
    \/ StepTag
    \/ StepArray
    \/ StepFail
    \/ StepLine
    \/ StepPattEqStr
    \/ StepPatt
    \/ StepCallLread
    \/ StepCallLwrite
    \/ StepCallLlength
    \/ StepCallLstring
    \/ StepCallBarray
    \/ StepIllegal

Spec == Init /\ [][Next]_vars

\* verify() alone. A call of verify() that has started keeps executing: each
\* of its two loops takes its next step while it has one.
VerifyNext ==
    \/ VerifyCall
    \/ VerifyBytecodeIter
    \/ VerifyPostValidate

VerifySpec ==
    /\ Init
    /\ [][VerifyNext]_vars
    /\ WF_vars(VerifyBytecodeIter)
    /\ WF_vars(VerifyPostValidate)

\* The decoder alone: a buffer, a cursor anywhere in it or after it (move_to
\* takes any address), and calls of next(), as disassemble and the idiom
\* collector make them.
\* the instructions the buffers are built from: one of each family of the
\* switch, closures with 0, 1 and 2 variable descriptors, with an
\* unrecognised kind, and with more descriptors announced than present
DecodeAlphabet ==
    { I0(OpAdd), I0(OpSti), I0(OpEof), << 0 >>, << 37 >>,
      I1(OpConst, 1), I1(OpJmp, 9), I1(OpCallBarray, 2),
      I2(OpSexp, 0, 1), I2(OpBegin, 2, 0), I2(OpCall, 9, 0),
      I1(OpLdL, 0), I1(OpLdaG, 1), I1(OpStC, 0),
      I2(OpClosure, 9, 0),
      I2(OpClosure, 9, 1) \o << 1 >> \o to_u32_le(0),
      I2(OpClosure, 9, 1) \o << 4 >> \o to_u32_le(0),
      I2(OpClosure, 9, 2) \o << 0 >> \o to_u32_le(0) \o << 3 >> \o to_u32_le(1),
      << OpClosure >> \o to_u32_le(9) \o Neg32 \o << 2 >> \o to_u32_le(0) }

\* the number of instructions a buffer is cut from
MaxDecodeInstrs == 2

RECURSIVE DecodeSeqs(_)
DecodeSeqs(n) ==
    IF n = 0 THEN { << >> }
    ELSE { b \o i : b \in DecodeSeqs(n - 1), i \in DecodeAlphabet \cup { << >> } }

\* every buffer that is the beginning of such a sequence: the truncated ones too
DecodeBuffers ==
    UNION { { SubSeq(b, 1, n) : n \in 0 .. Len(b) } : b \in DecodeSeqs(MaxDecodeInstrs) }

DecodeInit ==
    /\ bc \in DecodeBuffers
    /\ strtab = DefaultStrTab
    /\ symtab = << >>
    /\ global_count = 1
    /\ beyond = << 0 >>
    /\ InitVerifier
    /\ InitRun
    /\ dpos \in 0 .. Len(bc) + 1
    /\ devents = << >>
    /\ InitRest

DecodeSpec == DecodeInit /\ [][DecoderNext]_vars

\* Arithmetic alone: programs that push one constant, or two constants and an
\* arithmetic instruction, run after verify() as main.cpp runs them.
\* the small integers: W - 1 bits, two's complement
MinSmallInt == -(WordMod \div 4)
MaxSmallInt == (WordMod \div 4) - 1
SmallInts == MinSmallInt .. MaxSmallInt

\* operands at and near the ends of the range and around zero
ArithInputs ==
    { MinSmallInt, MinSmallInt + 1, -3, -2, -1, 0, 1, 2, 3, 7, MaxSmallInt - 1, MaxSmallInt }
ArithOpcodes == { OpAdd, OpSub, OpMul, OpDiv, OpMod }

\* a negative constant is encoded in two's complement, as Const reads it
ArithPrograms ==
    { Concat(<< Main(0), I1(OpConst, x), I0(OpEnd), << OpEof >> >>) :
        x \in MinSmallInt - 1 .. MaxSmallInt + 1 }
      \cup
    { Concat(<< Main(0), I1(OpConst, a), I1(OpConst, b), I0(op), I0(OpEnd), << OpEof >> >>) :
        a \in ArithInputs, b \in ArithInputs, op \in ArithOpcodes }

ArithInit ==
    /\ bc \in ArithPrograms
    /\ strtab = DefaultStrTab
    /\ symtab = << >>
    /\ global_count = 1
    /\ beyond = << 0 >>
    /\ InitVerifier
    /\ InitRun
    /\ InitDecoder
    /\ InitRest

ArithNext ==
    \/ VerifyCall
    \/ VerifyBytecodeIter
    \/ VerifyPostValidate
    \/ Run
    \/ StepBegin
    \/ StepConst
    \/ StepBinop
    \/ StepEnd

ArithSpec == ArithInit /\ [][ArithNext]_vars

\* run() called by several callers: programs that return, that write to the
\* output stream, that end with a runtime error and that leave run() with an
\* exception
GuardPrograms ==
    { Concat(<< Main(0), I1(OpConst, 42), I0(OpCallLwrite), I0(OpEnd), << OpEof >> >>),
      Concat(<< Main(1), I1(OpConst, 1), I1(OpConst, 0), I0(OpDiv), I0(OpEnd),
                << OpEof >> >>),
      Concat(<< Main(0), I1(OpString, 9), I0(OpEnd), << OpEof >> >>) }

GuardInit ==
    /\ bc \in GuardPrograms
    /\ strtab = DefaultStrTab
    /\ symtab = << >>
    /\ global_count = 1
    /\ beyond = << 0 >>
    /\ InitVerifier
    /\ InitRun
    /\ InitDecoder
    /\ InitRest

GuardNext ==
    \/ VerifyCall
    \/ VerifyBytecodeIter
    \/ VerifyPostValidate
    \/ Run
    \/ OtherRun
    \/ StepBegin
    \/ StepConst
    \/ StepBinop
    \/ StepString
    \/ StepCallLwrite
    \/ StepEnd

GuardSpec == GuardInit /\ [][GuardNext]_vars

\* a capture descriptor of Closure: the kind of the variable and its index
Varspec(kind, m) == << kind >> \o to_u32_le(m)

\* programs around the allocating instructions: each of them used as the
\* compiler uses it, a Sexp of more members than the stack holds, and a closure
\* that captures a local the procedure does not declare
AllocPrograms ==
    { Concat(<< Main(0), I1(OpConst, 1), I1(OpConst, 2), I2(OpSexp, 0, 2), I0(OpEnd),
                << OpEof >> >>),
      Concat(<< Main(0), I1(OpConst, 1), I1(OpConst, 2), I1(OpCallBarray, 2), I0(OpEnd),
                << OpEof >> >>),
      Concat(<< Main(0), I1(OpConst, 7), I0(OpCallLstring), I0(OpEnd), << OpEof >> >>),
      Concat(<< Main(0), I1(OpString, 0), I0(OpEnd), << OpEof >> >>),
      Concat(<< Main(1), I2(OpClosure, 0, 1), Varspec(1, 0), I0(OpEnd), << OpEof >> >>),
      Concat(<< Main(0), I1(OpString, 0), I1(OpString, 3), I0(OpDrop), I0(OpDrop),
                I2(OpClosure, 0, 1), Varspec(1, 1), I0(OpEnd), << OpEof >> >>),
      Concat(<< Main(0), I1(OpConst, 1), I2(OpSexp, 0, 5), I0(OpEnd), << OpEof >> >>) }

AllocInit ==
    /\ bc \in AllocPrograms
    /\ strtab = DefaultStrTab
    /\ symtab = << >>
    /\ global_count = 1
    /\ beyond = << 0 >>
    /\ InitVerifier
    /\ InitRun
    /\ InitDecoder
    /\ InitRest

AllocNext ==
    \/ VerifyCall
    \/ VerifyBytecodeIter
    \/ VerifyPostValidate
    \/ Run
    \/ StepBegin
    \/ StepConst
    \/ StepString
    \/ StepSexp
    \/ StepDrop
    \/ StepClosure
    \/ StepCallLstring
    \/ StepCallBarray
    \/ StepEnd

AllocSpec == AllocInit /\ [][AllocNext]_vars

\* programs around the stack buffer: a call whose Begin makes the buffer grow a
\* second time, an operand stack filled to the size its Begin asks for, an
\* allocation, and the bytecode the Lama compiler writes for `0`, whose Begin
\* asks for no operand slot
StackPrograms ==
    { Concat(<< Main(0), I1(OpConst, 3), I2(OpCall, 24, 1), I0(OpEnd),
                I2(OpBegin, BeginImm(1, 2), 2), I1(OpLdA, 0), I0(OpEnd), << OpEof >> >>),
      Concat(<< Main(0), I1(OpConst, 1), I1(OpConst, 2), I1(OpConst, 3), I1(OpConst, 4),
                I0(OpEnd), << OpEof >> >>),
      Concat(<< Main(1), I1(OpString, 0), I0(OpEnd), << OpEof >> >>),
      Concat(<< Main(2), I1(OpConst, 1), I1(OpLdL, 1), I0(OpEnd), << OpEof >> >>),
      Concat(<< I2(OpBegin, BeginImm(2, 0), 0), I1(OpConst, 0), I0(OpEnd), << OpEof >> >>) }

StackInit ==
    /\ bc \in StackPrograms
    /\ strtab = DefaultStrTab
    /\ symtab = << >>
    /\ global_count = 1
    /\ beyond = << 0 >>
    /\ InitVerifier
    /\ InitRun
    /\ InitDecoder
    /\ InitRest

StackNext ==
    \/ VerifyCall
    \/ VerifyBytecodeIter
    \/ VerifyPostValidate
    \/ Run
    \/ StepBegin
    \/ StepConst
    \/ StepString
    \/ StepCall
    \/ StepLd
    \/ StepEnd

StackSpec == StackInit /\ [][StackNext]_vars

\* programs with procedure calls: a Call with one argument, a CallC of a
\* closure, a callee that assigns a global, a call inside a callee, and a Call
\* whose argument count is not the parameter count of its target
CallPrograms ==
    { Concat(<< Main(0), I1(OpConst, 3), I2(OpCall, 24, 1), I0(OpEnd),
                I2(OpBegin, BeginImm(1, 2), 0), I1(OpLdA, 0), I0(OpEnd), << OpEof >> >>),
      Concat(<< Main(1), I2(OpClosure, 29, 1), Varspec(1, 0), I1(OpCallC, 0), I0(OpEnd),
                I2(OpCbegin, BeginImm(0, 2), 0), I1(OpLdC, 0), I0(OpEnd), << OpEof >> >>),
      Concat(<< Main(0), I1(OpConst, 5), I2(OpCall, 24, 1), I0(OpEnd),
                I2(OpBegin, BeginImm(1, 2), 0), I1(OpLdA, 0), I1(OpStG, 0), I0(OpEnd),
                << OpEof >> >>),
      Concat(<< Main(0), I1(OpConst, 1), I2(OpCall, 24, 1), I0(OpEnd),
                I2(OpBegin, BeginImm(1, 2), 1), I2(OpCall, 43, 0), I0(OpEnd),
                I2(OpBegin, BeginImm(0, 2), 0), I1(OpConst, 9), I0(OpRet), << OpEof >> >>),
      Concat(<< Main(0), I1(OpConst, 3), I2(OpCall, 24, 1), I0(OpEnd),
                I2(OpBegin, BeginImm(0, 2), 0), I1(OpConst, 7), I0(OpEnd), << OpEof >> >>) }

CallInit ==
    /\ bc \in CallPrograms
    /\ strtab = DefaultStrTab
    /\ symtab = << >>
    /\ global_count = 1
    /\ beyond = << 0 >>
    /\ InitVerifier
    /\ InitRun
    /\ InitDecoder
    /\ InitRest

CallNext ==
    \/ VerifyCall
    \/ VerifyBytecodeIter
    \/ VerifyPostValidate
    \/ Run
    \/ StepBegin
    \/ StepConst
    \/ StepClosure
    \/ StepCall
    \/ StepCallC
    \/ StepLd
    \/ StepSt
    \/ StepEnd

CallSpec == CallInit /\ [][CallNext]_vars

\* programs that end in Eq, Swap or Sta over operands of every kind: small
\* integers, a string, an array, an S-expression, a closure
EqPrograms ==
    { Concat(<< Main(0) >> \o ops \o << I0(OpEq), I0(OpEnd), << OpEof >> >>) :
        ops \in { << I1(OpConst, 1), I1(OpConst, 1) >>,
                  << I1(OpConst, 1), I1(OpConst, 2) >>,
                  << I1(OpConst, 65535), I1(OpConst, 65535) >>,
                  << I1(OpConst, 1), I1(OpString, 0) >>,
                  << I1(OpString, 0), I1(OpConst, 1) >>,
                  << I1(OpString, 0), I1(OpCallBarray, 0) >>,
                  << I2(OpSexp, 0, 0), I2(OpClosure, 0, 0) >>,
                  << I1(OpString, 0), I1(OpString, 0) >> } }

SwapPrograms ==
    { Concat(<< Main(0) >> \o ops \o << I0(OpSwap), I0(OpEnd), << OpEof >> >>) :
        ops \in { << I1(OpConst, 1), I1(OpConst, 2) >>,
                  << I1(OpString, 0), I1(OpConst, 1) >>,
                  << I1(OpConst, 0), I1(OpString, 0) >>,
                  << I1(OpConst, 5), I1(OpConst, 1), I1(OpCallBarray, 1) >> } }

StaPrograms ==
    { Concat(<< Main(0) >> \o ops \o << I0(OpSta), I0(OpEnd), << OpEof >> >>) :
        ops \in { << I1(OpConst, 7), I1(OpCallBarray, 1), I1(OpConst, 0), I1(OpConst, 9) >>,
                  << I1(OpConst, 7), I1(OpCallBarray, 1), I1(OpConst, 0), I1(OpString, 0) >>,
                  << I1(OpString, 0), I1(OpConst, 1), I1(OpConst, 120) >>,
                  << I1(OpString, 0), I1(OpConst, 0), I1(OpConst, 255) >>,
                  << I1(OpConst, 5), I2(OpSexp, 0, 1), I1(OpConst, 0), I1(OpConst, 6) >>,
                  << I1(OpConst, 1), I1(OpConst, 0), I1(OpConst, 2) >>,
                  << I2(OpClosure, 0, 0), I1(OpConst, 0), I1(OpConst, 2) >>,
                  << I1(OpString, 0), I1(OpString, 0), I1(OpConst, 1) >>,
                  << I1(OpString, 0), I1(OpConst, 2), I1(OpConst, 1) >>,
                  << I1(OpString, 0), I1(OpConst, 65535), I1(OpConst, 1) >>,
                  << I1(OpCallBarray, 0), I1(OpConst, 0), I1(OpConst, 1) >>,
                  << I1(OpString, 0), I1(OpConst, 0), I1(OpString, 0) >>,
                  << I1(OpString, 0), I1(OpConst, 0), I1(OpConst, 256) >>,
                  << I1(OpString, 0), I1(OpConst, 0), I1(OpConst, 65535) >>,
                  << I1(OpString, 0), I1(OpConst, 0), I1(OpConst, 120), I0(OpSta),
                     I1(OpConst, 0), I1(OpConst, 1) >> } }

ValueInit ==
    /\ bc \in EqPrograms \cup SwapPrograms \cup StaPrograms
    /\ strtab = DefaultStrTab
    /\ symtab = << >>
    /\ global_count = 1
    /\ beyond = << 0 >>
    /\ InitVerifier
    /\ InitRun
    /\ InitDecoder
    /\ InitRest

ValueNext ==
    \/ VerifyCall
    \/ VerifyBytecodeIter
    \/ VerifyPostValidate
    \/ Run
    \/ StepBegin
    \/ StepConst
    \/ StepString
    \/ StepSexp
    \/ StepCallBarray
    \/ StepClosure
    \/ StepBinop
    \/ StepSwap
    \/ StepSta
    \/ StepEnd

ValueSpec == ValueInit /\ [][ValueNext]_vars

\* programs that call a closure: two captures and two arguments read one at a
\* time, a capture assigned by the callee, and two closures of the same
\* procedure on the stack of which the upper one is called
CaptureCallees ==
    { << I1(OpLdC, 0) >>, << I1(OpLdC, 1) >>, << I1(OpLdA, 0) >>, << I1(OpLdA, 1) >>,
      << I1(OpLdA, 1), I1(OpStC, 0) >> }

CapturePrograms ==
    { Concat(<< Main(2), I1(OpConst, 4), I1(OpStL, 0),
                I2(OpClosure, 54, 2), Varspec(1, 0), Varspec(1, 1),
                I1(OpConst, 6), I1(OpConst, 7), I1(OpCallC, 2), I0(OpEnd),
                I2(OpCbegin, BeginImm(2, 2), 0) >> \o callee \o << I0(OpEnd), << OpEof >> >>) :
        callee \in CaptureCallees }
    \cup
    { Concat(<< Main(1), I1(OpConst, 4), I1(OpStL, 0),
                I2(OpClosure, 53, 1), Varspec(1, 0), I2(OpClosure, 53, 1), Varspec(0, 0),
                I1(OpCallC, 0), I0(OpEnd),
                I2(OpCbegin, BeginImm(0, 2), 0), I1(OpLdC, 0), I0(OpEnd), << OpEof >> >>) }

CaptureInit ==
    /\ bc \in CapturePrograms
    /\ strtab = DefaultStrTab
    /\ symtab = << >>
    /\ global_count = 1
    /\ beyond = << 0 >>
    /\ InitVerifier
    /\ InitRun
    /\ InitDecoder
    /\ InitRest

CaptureNext ==
    \/ VerifyCall
    \/ VerifyBytecodeIter
    \/ VerifyPostValidate
    \/ Run
    \/ StepBegin
    \/ StepConst
    \/ StepClosure
    \/ StepCallC
    \/ StepLd
    \/ StepSt
    \/ StepEnd

CaptureSpec == CaptureInit /\ [][CaptureNext]_vars

(***************************************************************************)
(* verify_body_instr on its own. verify() never reaches it (the entries of *)
(* verified_ start as Proc), so here the first loop of verify_bytecode is  *)
(* applied to the requests it is written for: the Verifier as constructed, *)
(* the module's procedures in procs_ as the Begin case of                  *)
(* verify_top_level_instr inserts them, and on the work list a body        *)
(* request for the first body instruction of each.                         *)
(***************************************************************************)
\* the static height above which no request is followed
MaxStaticHeight == 6

\* one encoding of every opcode that has a handler; a jump goes to target
BodyInstrs(target) ==
    { I0(op) : op \in BinopOpcodes \cup PattOpcodes
                        \cup { OpSti, OpSta, OpEnd, OpRet, OpDrop, OpDup, OpSwap, OpElem,
                               OpCallLread, OpCallLwrite, OpCallLlength, OpCallLstring } }
      \cup { I1(op, 1) : op \in { OpConst, OpCallC, OpArray, OpCallBarray, OpLine } }
      \cup { I1(OpString, 0), I2(OpSexp, 0, 1), I2(OpTag, 0, 1), I2(OpFail, 1, 1),
             I2(OpCall, 0, 1) }
      \cup { I1(op, target) : op \in { OpJmp, OpCjmpZ, OpCjmpNz } }
      \cup { I1(op, 0) : op \in DecodeVarspec }
      \cup { I2(OpClosure, 0, 0), I2(OpClosure, 0, 1) \o Varspec(0, 0) }

RECURSIVE Consts(_)
Consts(k) == IF k = 0 THEN << >> ELSE I1(OpConst, 0) \o Consts(k - 1)

\* Begin 2 0; k times Const 0; one instruction; End; End; a jump goes to the
\* second End
OneInstrPrograms ==
    { Main(0) \o Consts(k) \o x \o << OpEnd, OpEnd, OpEof >> :
        k \in { 3 }, x \in BodyInstrs(15 + 5 * 3) }
      \cup { Main(0) \o Consts(k) \o I1(op, 15 + 5 * k) \o << OpEnd, OpEnd, OpEof >> :
               k \in 0 .. 2, op \in { OpCjmpZ, OpCjmpNz } }

\* two procedures that reach different heights: main reaches 1, the procedure
\* that follows it 2 or 3
TwoProcPrograms ==
    { Concat(<< Main(0), I1(OpConst, 0), I0(OpEnd),
                I2(OpBegin, BeginImm(0, 3), 0) >> \o body \o << I0(OpEnd), << OpEof >> >>) :
        body \in { << I1(OpConst, 1), I1(OpConst, 2), I0(OpAdd) >>,
                   << I1(OpConst, 1), I1(OpConst, 2), I1(OpConst, 3), I0(OpDrop),
                      I0(OpDrop) >> } }

BodyPrograms == OneInstrPrograms \cup TwoProcPrograms

\* the procedure declarations of a program of BodyPrograms
DeclaredAt(b) == { p \in { 0, 15 } : p + 9 < Len(b) /\ b[p + 1] = OpBegin }

\* procs_.insert({op_addr, ProcInfo{params, locals, .captures = 0, is_closure}})
RECURSIVE registered(_, _, _)
registered(b, ps, E) ==
    IF E = { } THEN ps
    ELSE LET p == CHOOSE x \in E : \A y \in E : x <= y
         IN  registered(b,
                        MapInsert(ps, p,
                                  ProcInfo(read_u32(b, p + 1, FALSE).v,
                                           read_u32(b, p + 5, FALSE).v, 0, 0,
                                           b[p + 1] = OpCbegin)),
                        E \ { p })

\* a body request at height 0 for the instruction after each declaration
RECURSIVE body_requests(_)
body_requests(E) ==
    IF E = { } THEN << >>
    ELSE LET p == CHOOSE x \in E : \A y \in E : x >= y
         IN  Append(body_requests(E \ { p }), BodyInstrVerifyReq(p + 9, p, 0))

BodyInit ==
    /\ bc \in BodyPrograms
    /\ strtab = DefaultStrTab
    /\ symtab = << >>
    /\ global_count = 1
    /\ beyond = << 0 >>
    /\ symtab_map = { }
    /\ last_strtab_entry = compute_last_strtab_entry(strtab)
    /\ vpc = "bytecode"
    /\ vresults = << >>
    /\ verified = NewVerified(Len(bc))
    /\ procs = registered(bc, << >>, DeclaredAt(bc))
    /\ to_verify = body_requests(DeclaredAt(bc))
    /\ post_validate_reqs = << >>
    /\ InitRun
    /\ InitDecoder
    /\ InitRest

\* an iteration of the first loop of verify_bytecode
VerifyBodyRequest ==
    /\ to_verify # << >>
    /\ to_verify[Len(to_verify)].stack_height < MaxStaticHeight
    /\ VerifyBytecodeIter

BodyNext ==
    \/ VerifyBodyRequest
    \/ VerifyPostValidate

BodySpec == BodyInit /\ [][BodyNext]_vars

\* programs whose main pushes a value, drops it and calls a procedure with
\* locals: Begin 2 0; x; Drop; Call 25 0; End; Begin 0 l; LdL 0; End
FramePrograms ==
    { Concat(<< Main(0), x, I0(OpDrop), I2(OpCall, 25, 0), I0(OpEnd),
                I2(OpBegin, BeginImm(0, 1), l), I1(OpLdL, 0), I0(OpEnd), << OpEof >> >>) :
        x \in { I1(OpConst, 0), I1(OpConst, 1), I1(OpConst, 7), I1(OpString, 0),
                I1(OpString, 3) },
        l \in 1 .. 2 }

FrameInit ==
    /\ bc \in FramePrograms
    /\ strtab = DefaultStrTab
    /\ symtab = << >>
    /\ global_count = 1
    /\ beyond = << 0 >>
    /\ InitVerifier
    /\ InitRun
    /\ InitDecoder
    /\ InitRest

FrameNext ==
    \/ VerifyCall
    \/ VerifyBytecodeIter
    \/ VerifyPostValidate
    \/ Run
    \/ StepBegin
    \/ StepConst
    \/ StepString
    \/ StepDrop
    \/ StepCall
    \/ StepLd
    \/ StepEnd

FrameSpec == FrameInit /\ [][FrameNext]_vars

(***************************************************************************)
(* The idiom miner (src/src/idiom.cpp): find_idioms as actions, one per    *)
(* loop iteration of its three passes, then the copy out of the map and    *)
(* the sort.                                                               *)
(***************************************************************************)
is_jump(instr) == instr \in { OpJmp, OpCjmpZ, OpCjmpNz }
is_terminal(instr) == instr \in { OpJmp, OpEnd, OpRet, OpFail }

\* a should_split_after that leaves the calls out
should_split_after_no_calls(instr) == instr \in { OpJmp, OpRet, OpEnd, OpFail }

should_split_after(instr) == instr \in { OpJmp, OpCall, OpCallC, OpRet, OpEnd, OpFail }

\* the work list and the bits of find_reachable_instrs; oob: a bit outside the
\* vector was accessed
Reach(tp, r, oob) == [ to_process |-> tp, reachable |-> r, oob |-> oob ]

enqueue_to_process(Q, size, addr) ==
    IF addr >= size THEN [ Q EXCEPT !.oob = TRUE ]
    ELSE IF addr \in Q.reachable THEN Q
    ELSE Reach(Append(Q.to_process, addr), Q.reachable \cup { addr }, Q.oob)

\* for (const auto &[addr, _] : info.procs) enqueue_to_process(addr)
RECURSIVE enqueue_procs(_, _, _, _)
enqueue_procs(Q, size, ps, i) ==
    IF i > Len(ps) THEN Q
    ELSE enqueue_procs(enqueue_to_process(Q, size, ps[i]), size, ps, i + 1)

\* the listener of find_reachable_instrs over the events of one next() call:
\* the immediates of a jump are enqueued
RECURSIVE reachable_listener(_, _, _, _)
reachable_listener(Q, size, es, i) ==
    IF i > Len(es) THEN Q
    ELSE reachable_listener(
             IF es[i].ev = "Imm32" /\ is_jump(es[1].opcode)
                 THEN enqueue_to_process(Q, size, es[i].imm.v)
                 ELSE Q,
             size, es, i + 1)

\* one iteration of the while loop of find_reachable_instrs
find_reachable_iter(b, Q) ==
    LET addr == Q.to_process[Len(Q.to_process)]
        es == Decoder_next(b, addr).out
        popped == Reach(SubSeq(Q.to_process, 1, Len(Q.to_process) - 1), Q.reachable, Q.oob)
        heard == reachable_listener(popped, Len(b), es, 1)
    IN  IF ~is_terminal(es[1].opcode)
            THEN enqueue_to_process(heard, Len(b), es[Len(es)].addr)
            ELSE heard

\* find_split_points: the targets of the reachable jumps
find_split_points(b, r) ==
    UNION { { e.imm.v : e \in { Decoder_next(b, a).out[i] :
                                  i \in { j \in 1 .. Len(Decoder_next(b, a).out) :
                                            Decoder_next(b, a).out[j].ev = "Imm32" } } } :
            a \in { x \in r : is_jump(b[x + 1]) } }

\* occurrences[s] += 1
bump(occ, s) ==
    IF s \in DOMAIN occ THEN [ occ EXCEPT ![s] = @ + 1 ] ELSE (s :> 1) @@ occ

\* the callback find_idioms passes to walk_reachable_instrs, for the
\* instruction at addr
count_instr(b, occ, sp, addr) ==
    LET es == Decoder_next(b, addr).out
        start == es[1]
        end == es[Len(es)]
        one == bump(occ, SubSeq(b, end.start + 1, end.addr))
        next_es == Decoder_next(b, end.addr).out
        next_end == next_es[Len(next_es)]
    IN  IF end.addr \notin sp /\ ~should_split_after(start.opcode)
            THEN bump(one, SubSeq(b, start.addr + 1, next_end.addr))
            ELSE one

Idiom(instrs, n) == [ instrs |-> instrs, occurrences |-> n ]

\* std::ranges::lexicographical_compare over the bytes
RECURSIVE lexicographical_compare(_, _)
lexicographical_compare(l, r) ==
    IF r = << >> THEN FALSE
    ELSE IF l = << >> THEN TRUE
    ELSE IF Head(l) # Head(r) THEN Head(l) < Head(r)
    ELSE lexicographical_compare(Tail(l), Tail(r))

\* a comparator that looks at the counts only
sort_less_by_count(lhs, rhs) == lhs.occurrences > rhs.occurrences

\* the comparator of the sort
sort_less(lhs, rhs) ==
    \/ lhs.occurrences > rhs.occurrences
    \/ /\ lhs.occurrences = rhs.occurrences
       /\ lexicographical_compare(lhs.instrs, rhs.instrs)

\* std::ranges::sort: each element goes before the first one it is less than
RECURSIVE sort_insert(_, _)
sort_insert(s, x) ==
    IF s = << >> THEN << x >>
    ELSE IF sort_less(x, Head(s)) THEN << x >> \o s
    ELSE << Head(s) >> \o sort_insert(Tail(s), x)

RECURSIVE sort(_)
sort(s) == IF s = << >> THEN << >> ELSE sort_insert(sort(Tail(s)), Head(s))

\* the orders a container of the elements of S can be iterated in
RECURSIVE Orders(_)
Orders(S) ==
    IF S = { } THEN { << >> }
    ELSE UNION { { << x >> \o o : o \in Orders(S \ { x }) } : x \in S }

\* find_idioms is called: the first loop of find_reachable_instrs
FindIdioms ==
    /\ ipc = "idle"
    /\ LET Q == enqueue_procs(Reach(<< >>, { }, FALSE), Len(bc), info, 1)
       IN  /\ to_process' = Q.to_process
           /\ reachable' = Q.reachable
           /\ ipc' = IF Q.oob THEN "ub" ELSE "reach"
    /\ UNCHANGED << modVars, verVars, runVars, decVars, loaderVars, mainVars, info, split_points, walk_it,
                    occurrences, idioms >>

FindReachableIter ==
    /\ ipc = "reach"
    /\ to_process # << >>
    /\ LET Q == find_reachable_iter(bc, Reach(to_process, reachable, FALSE))
       IN  /\ to_process' = Q.to_process
           /\ reachable' = Q.reachable
           /\ ipc' = IF Q.oob THEN "ub" ELSE "reach"
    /\ UNCHANGED << modVars, verVars, runVars, decVars, loaderVars, mainVars, info, split_points, walk_it,
                    occurrences, idioms >>

FindSplitPoints ==
    /\ ipc = "reach"
    /\ to_process = << >>
    /\ split_points' = find_split_points(bc, reachable)
    /\ walk_it' = 0
    /\ ipc' = IF reachable = { } THEN "collect" ELSE "walk"
    /\ UNCHANGED << modVars, verVars, runVars, decVars, loaderVars, mainVars, info, to_process, reachable,
                    occurrences, idioms >>

\* one iteration of the loop of walk_reachable_instrs under find_idioms
WalkIter ==
    /\ ipc = "walk"
    /\ \E addr \in reachable :
         /\ addr >= walk_it
         /\ \A a \in reachable : a >= walk_it => addr <= a
         /\ occurrences' = count_instr(bc, occurrences, split_points, addr)
         /\ walk_it' = addr + 1
         /\ ipc' = IF \E a \in reachable : a > addr THEN "walk" ELSE "collect"
    /\ UNCHANGED << modVars, verVars, runVars, decVars, loaderVars, mainVars, info, to_process, reachable,
                    split_points, idioms >>

\* one iteration of the loop that copies the map into the vector: the next
\* entry is whichever the map's iterator yields
CollectIter ==
    /\ ipc = "collect"
    /\ \E s \in DOMAIN occurrences :
         /\ \A i \in 1 .. Len(idioms) : idioms[i].instrs # s
         /\ idioms' = Append(idioms, Idiom(s, occurrences[s]))
    /\ UNCHANGED << modVars, verVars, runVars, decVars, loaderVars, mainVars, ipc, info, to_process, reachable,
                    split_points, walk_it, occurrences >>

SortIdioms ==
    /\ ipc = "collect"
    /\ Len(idioms) = Cardinality(DOMAIN occurrences)
    /\ idioms' = sort(idioms)
    /\ ipc' = "done"
    /\ UNCHANGED << modVars, verVars, runVars, decVars, loaderVars, mainVars, info, to_process, reachable,
                    split_points, walk_it, occurrences >>

\* verified modules with their procedures: straight-line code with a repeated
\* instruction, a loop with a conditional jump over a Line, code a Jmp skips,
\* and a call of a second procedure that calls itself
IdiomModules ==
    { [ bc |-> Concat(<< Main(0), I1(OpConst, 1), I1(OpConst, 1), I0(OpEnd),
                         << OpEof >> >>),
        procs |-> { 0 } ],
      [ bc |-> Concat(<< Main(0), I1(OpConst, 0), I1(OpCjmpZ, 24), I1(OpLine, 1),
                         I1(OpJmp, 9), << OpEof >> >>),
        procs |-> { 0 } ],
      [ bc |-> Concat(<< Main(0), I1(OpJmp, 19), I1(OpConst, 2), I1(OpConst, 1),
                         I0(OpEnd), << OpEof >> >>),
        procs |-> { 0 } ],
      [ bc |-> Concat(<< Main(0), I2(OpCall, 19, 0), I0(OpEnd),
                         I2(OpBegin, BeginImm(0, 1), 0), I2(OpCall, 19, 0), I0(OpEnd),
                         << OpEof >> >>),
        procs |-> { 0, 19 } ] }

IdiomInit ==
    /\ \E m \in IdiomModules :
         /\ bc = m.bc
         /\ info \in Orders(m.procs)
    /\ strtab = DefaultStrTab
    /\ symtab = << >>
    /\ global_count = 1
    /\ beyond = << 0 >>
    /\ InitVerifier
    /\ InitRun
    /\ InitDecoder
    /\ ipc = "idle"
    /\ to_process = << >>
    /\ reachable = { }
    /\ split_points = { }
    /\ walk_it = 0
    /\ occurrences = << >>
    /\ idioms = << >>
    /\ InitNoLoader
    /\ InitNoMain

IdiomNext ==
    \/ FindIdioms
    \/ FindReachableIter
    \/ FindSplitPoints
    \/ WalkIter
    \/ CollectIter
    \/ SortIdioms

IdiomSpec == IdiomInit /\ [][IdiomNext]_vars

(***************************************************************************)
(* The loader (src/src/loader.cpp): Loader::load as actions, one per field *)
(* of the header and of the symbol table, one for the string table and one *)
(* for the bytecode section.                                               *)
(***************************************************************************)
buf_size == 4096

\* what load_bytes and load_u32 return: the stream position after the read and
\* the count or value read, or the error
Loaded(p, res, val) == [ pos |-> p, res |-> res, val |-> val ]

\* Loader::load_bytes of n bytes with the stream at p; errno_set: errno is not
\* zero after the read. The test of the error code is `!err`.
load_bytes(f, p, n, allow_partial, errno_set) ==
    LET read_count == IF Len(f) - p < n THEN Len(f) - p ELSE n
    IN  IF ~errno_set
            THEN Loaded(p + read_count, Err(p + read_count, "failure"), 0)
        ELSE IF ~allow_partial /\ read_count < n
            THEN Loaded(p + read_count, Err(p + read_count, "unexpected_eof"), 0)
        ELSE Loaded(p + read_count, Ok, read_count)

\* Loader::load_u32
load_u32(f, p, errno_set) ==
    LET r == load_bytes(f, p, 4, FALSE, errno_set)
    IN  IF ~r.res.ok THEN r
        ELSE IF from_u32_le(f, p).hi THEN Loaded(r.pos, Err(p, "negative"), 0)
        ELSE Loaded(r.pos, Ok, from_u32_le(f, p).v)

\* the end of load_bytecode: the search for the end-of-file marker in the
\* section read from offset p to offset end
check_eof_marker(b, p, end) ==
    LET found == { i \in 1 .. Len(b) : b[i] = OpEof }
        idx == (CHOOSE i \in found : \A j \in found : i <= j) - 1
    IN  IF found = { } THEN Err(end, "no_eof_marker")
        ELSE IF idx # Len(b) THEN Err(p + idx, "eof_marker_not_final")
        ELSE Ok

\* the header fields in the order load_header reads them
NextField(field, hdr, lm) ==
    CASE field = "strtab_size" -> "global_count"
      [] field = "global_count" -> "symtab_entries"
      [] field = "symtab_entries" -> IF hdr.symtab_entries > 0 THEN "sym_address" ELSE "strtab"
      [] field = "sym_address" -> "sym_name"
      [] field = "sym_name" ->
            IF Len(lm.symtab) < hdr.symtab_entries THEN "sym_address" ELSE "strtab"

\* one load_u32 of load_header, with what is done with its value
LoadU32 ==
    /\ lpc \in { "strtab_size", "global_count", "symtab_entries", "sym_address", "sym_name" }
    /\ \E errno_set \in BOOLEAN :
         LET r == load_u32(file, lpos, errno_set)
             hdr == CASE lpc = "strtab_size" -> [ lhdr EXCEPT !.strtab_size = r.val ]
                      [] lpc = "symtab_entries" -> [ lhdr EXCEPT !.symtab_entries = r.val ]
                      [] lpc = "sym_address" -> [ lhdr EXCEPT !.address = r.val ]
                      [] OTHER -> lhdr
             lm == CASE lpc = "global_count" -> [ lmod EXCEPT !.global_count = r.val ]
                     [] lpc = "sym_name" ->
                           \* Sym::offset is left at its default
                           [ lmod EXCEPT !.symtab = Append(@, Sym(0, lhdr.address, r.val)) ]
                     [] OTHER -> lmod
         IN  /\ lpos' = r.pos
             /\ IF r.res.ok
                    THEN /\ lhdr' = hdr
                         /\ lmod' = lm
                         /\ lpc' = NextField(lpc, hdr, lm)
                         /\ UNCHANGED lres
                    ELSE /\ lres' = r.res
                         /\ lpc' = "done"
                         /\ UNCHANGED << lhdr, lmod >>
    /\ UNCHANGED << modVars, verVars, runVars, decVars, idiomVars, mainVars, file >>

\* the rest of load_header: the string table
LoadStrtab ==
    /\ lpc = "strtab"
    /\ \E errno_set \in BOOLEAN :
         LET r == load_bytes(file, lpos, lhdr.strtab_size, FALSE, errno_set)
         IN  /\ lpos' = r.pos
             /\ IF r.res.ok
                    THEN /\ lmod' = [ lmod EXCEPT !.strtab = SubSeq(file, lpos + 1, r.pos) ]
                         /\ lpc' = "bytecode"
                         /\ UNCHANGED lres
                    ELSE /\ lres' = r.res
                         /\ lpc' = "done"
                         /\ UNCHANGED lmod
    /\ UNCHANGED << modVars, verVars, runVars, decVars, idiomVars, mainVars, file, lhdr >>

\* load_bytecode, for a section shorter than the buffer: one read, then the
\* search for the marker
LoadBytecode ==
    /\ lpc = "bytecode"
    /\ Len(file) - lpos < buf_size
    /\ \E errno_set \in BOOLEAN :
         LET r == load_bytes(file, lpos, buf_size, TRUE, errno_set)
             read == SubSeq(file, lpos + 1, r.pos)
         IN  /\ lpos' = r.pos
             /\ lpc' = "done"
             /\ IF r.res.ok
                    THEN /\ lmod' = [ lmod EXCEPT !.bytecode = read ]
                         /\ lres' = check_eof_marker(read, lpos, r.pos)
                    ELSE /\ lres' = r.res
                         /\ UNCHANGED lmod
    /\ UNCHANGED << modVars, verVars, runVars, decVars, idiomVars, mainVars, file, lhdr >>

\* a file: the header, the symbol table, the string table, the bytecode
FileOf(strtab_size, globals, entries, syms, st, code) ==
    strtab_size \o globals \o entries \o syms \o st \o code

Prefixes(f) == { SubSeq(f, 1, n) : n \in 0 .. Len(f) }

\* files of a module with and without a public symbol, cut short anywhere;
\* files with a negative field; files whose bytecode has the marker twice, or
\* inside an immediate
LoaderFiles ==
    Prefixes(FileOf(to_u32_le(5), to_u32_le(1), to_u32_le(1),
                    to_u32_le(0) \o to_u32_le(3), DefaultStrTab, DefaultProgram))
      \cup { FileOf(to_u32_le(5), to_u32_le(1), to_u32_le(0), << >>, DefaultStrTab,
                    DefaultProgram),
             FileOf(Neg32, to_u32_le(1), to_u32_le(0), << >>, << >>, DefaultProgram),
             FileOf(to_u32_le(0), Neg32, to_u32_le(0), << >>, << >>, DefaultProgram),
             FileOf(to_u32_le(0), to_u32_le(1), Neg32, << >>, << >>, DefaultProgram),
             FileOf(to_u32_le(0), to_u32_le(1), to_u32_le(1), Neg32 \o to_u32_le(0),
                    << >>, DefaultProgram),
             FileOf(to_u32_le(0), to_u32_le(1), to_u32_le(1), to_u32_le(0) \o Neg32,
                    << >>, DefaultProgram),
             FileOf(to_u32_le(0), to_u32_le(1), to_u32_le(0), << >>, << >>,
                    DefaultProgram \o << OpEof >>),
             FileOf(to_u32_le(0), to_u32_le(1), to_u32_le(0), << >>, << >>,
                    Concat(<< Main(0), I1(OpConst, 255), I0(OpEnd), << OpEof >> >>)) }

\* a Loader constructed over a file, load() not yet called
InitLoader ==
    /\ lpc = "strtab_size"
    /\ lpos = 0
    /\ lhdr = [ strtab_size |-> 0, symtab_entries |-> 0, address |-> 0 ]
    /\ lmod = [ global_count |-> 0, symtab |-> << >>, strtab |-> << >>, bytecode |-> << >> ]
    /\ lres = Ok

LoaderInit ==
    /\ bc = DefaultProgram
    /\ strtab = DefaultStrTab
    /\ symtab = << >>
    /\ global_count = 1
    /\ beyond = << 0 >>
    /\ InitVerifier
    /\ InitRun
    /\ InitDecoder
    /\ InitIdiom
    /\ file \in LoaderFiles
    /\ InitLoader
    /\ InitNoMain

LoaderNext ==
    \/ LoadU32
    \/ LoadStrtab
    \/ LoadBytecode

LoaderSpec == LoaderInit /\ [][LoaderNext]_vars

(***************************************************************************)
(* The command-line driver (src/src/main.cpp): main from the load of the   *)
(* input file on. The build is with or without DYNAMIC_VERIFICATION.       *)
(***************************************************************************)
Modes == { "disas", "verify", "idiom", "run" }

\* the module load() returned becomes the module of the run
ModuleLoaded ==
    /\ bc' = lmod.bytecode
    /\ strtab' = lmod.strtab
    /\ symtab' = lmod.symtab
    /\ global_count' = lmod.global_count
    /\ UNCHANGED beyond

\* load() has returned: main reports its error and returns 1, or goes on to
\* print_disas, to verify(), or, in a build with DYNAMIC_VERIFICATION, past
\* verify() to the return of verify mode and to the interpreter
MainLoaded ==
    /\ mpc = "load"
    /\ lpc = "done"
    /\ IF ~lres.ok
           THEN mpc' = "exit" /\ exit_code' = 1 /\ UNCHANGED modVars
       ELSE /\ ModuleLoaded
            /\ IF mode = "disas" THEN mpc' = "print_disas" /\ UNCHANGED exit_code
               ELSE IF ~dynamic_verification \/ mode = "idiom"
                   THEN mpc' = "verify" /\ UNCHANGED exit_code
               ELSE IF mode = "verify" THEN mpc' = "exit" /\ exit_code' = 0
               ELSE mpc' = "run" /\ UNCHANGED exit_code
    /\ UNCHANGED << verVars, runVars, decVars, idiomVars, loaderVars, mode,
                    dynamic_verification >>

\* verify() has returned: main reports its error and returns 1, returns 0 in
\* verify mode, or goes on to print_idioms or to the interpreter
MainVerified ==
    /\ mpc = "verify"
    /\ vpc = "done"
    /\ vresults # << >>
    /\ IF ~vresults[Len(vresults)].ok THEN mpc' = "exit" /\ exit_code' = 1
       ELSE IF mode = "verify" THEN mpc' = "exit" /\ exit_code' = 0
       ELSE IF mode = "idiom" THEN mpc' = "print_idioms" /\ UNCHANGED exit_code
       ELSE mpc' = "run" /\ UNCHANGED exit_code
    /\ UNCHANGED << modVars, verVars, runVars, decVars, idiomVars, loaderVars, mode,
                    dynamic_verification >>

\* main has parsed its arguments and opened the input file
MainInit ==
    /\ bc = << >>
    /\ strtab = << >>
    /\ symtab = << >>
    /\ global_count = 0
    /\ beyond = << 0 >>
    /\ InitVerifier
    /\ InitRun
    /\ InitDecoder
    /\ InitIdiom
    /\ file \in LoaderFiles
    /\ InitLoader
    /\ mode \in Modes
    /\ dynamic_verification \in BOOLEAN
    /\ mpc = "load"
    /\ exit_code = 0

\* no load succeeds, so main never gets to verify(): MainVerified and the
\* components main starts after it are not among the steps
MainNext ==
    \/ LoadU32
    \/ LoadStrtab
    \/ LoadBytecode
    \/ MainLoaded

MainSpec == MainInit /\ [][MainNext]_vars

(***************************************************************************)
(* Claims about the verifier and the runs of the modules it accepts.       *)
(***************************************************************************)
\* the instruction at pc with its first, and its first two, immediates inside
\* the bytecode
AtOp(ops) == AtInstr /\ bc[pc + 1] \in ops
AtOp1(ops) == AtOp(ops) /\ HasImm(pc + 1)
AtOp2(ops) == AtOp(ops) /\ HasImm(pc + 1) /\ HasImm(pc + 5)

\* C1: no run of a module that verify() accepted dispatches an opcode the
\* interpreter has no handler for, reads an opcode or an immediate outside the
\* bytecode, uses a string-table offset outside the table, or reads a variable
\* descriptor or a capture that does not exist.
C1_AcceptedRunsStayLegal ==
    Accepted =>
        /\ ~(rstatus = "ub"
             /\ rmsg \in { "illegal_opcode", "bytecode_oob", "illegal_varspec",
                           "capture_oob" })
        /\ ~(rstatus = "thrown" /\ rmsg = "strtab_oob")

\* the failing input of C1: an accepted module whose run dispatches Sti
C1_IllegalOpcodeDispatched ==
    /\ Accepted
    /\ rstatus = "ub"
    /\ rmsg = "illegal_opcode"
    /\ pc >= 1
    /\ bc[pc] = OpSti

\* C2: whenever a run of an accepted module is about to execute the body
\* instruction at address a, the stack height the verifier recorded for a is
\* the height of the operand stack above the frame's locals.
C2_StaticHeightIsRuntimeHeight ==
    (Accepted /\ AtBodyInstr) => verified[pc].stack_height = Height

\* the failing input of C2: after Const the operand stack holds one value, and
\* the height recorded for the next instruction is 0
C2_HeightOneRecordedZero ==
    /\ Accepted
    /\ AtBodyInstr
    /\ Height = 1
    /\ verified[pc].stack_height = 0
    /\ pc >= 5
    /\ bc[pc - 4] = OpConst

\* C3: in a run of an accepted module, the instructions of one procedure are
\* each reached with one operand-stack height only.
C3_OneHeightPerAddress ==
    Accepted =>
        \A e1, e2 \in trace :
            (e1.addr = e2.addr /\ e1.proc = e2.proc) => e1.height = e2.height

\* the failing input of C3: the loop `9: Const 1; 14: Jmp 9` of an accepted
\* module reaches address 9 with the heights 0 and 1
C3_LoopGrowsStack ==
    /\ Accepted
    /\ Len(bc) > 18
    /\ bc[10] = OpConst
    /\ bc[15] = OpJmp
    /\ [ addr |-> 9, proc |-> 0, height |-> 0 ] \in trace
    /\ [ addr |-> 9, proc |-> 0, height |-> 1 ] \in trace

\* C4: in a run of an accepted module, every instruction address is executed
\* in the frames of one procedure only.
C4_OneOwnerPerAddress ==
    Accepted =>
        \A e1, e2 \in trace : e1.addr = e2.addr => e1.proc = e2.proc

\* the failing input of C4: main calls the procedure at 25 and then jumps to
\* address 34 of its body, which both frames execute
C4_BodySharedByTwoProcedures ==
    /\ Accepted
    /\ Len(bc) > 34
    /\ bc[26] = OpBegin
    /\ \E e1, e2 \in trace : e1.addr = 34 /\ e2.addr = 34 /\ e1.proc = 0 /\ e2.proc = 25

\* C5: every `Call l n` a run of an accepted module reaches has its target l
\* inside the bytecode, at a Begin whose parameter count is n.
C5_CallTargetIsBegin ==
    (Accepted /\ AtOp2({ OpCall })) =>
        LET l == ImmAt(pc + 1)
            n == ImmAt(pc + 5)
        IN  /\ ~l.hi
            /\ l.v < Len(bc)
            /\ bc[l.v + 1] = OpBegin
            /\ HasImm(l.v + 1)
            /\ ~n.hi
            /\ lo16(bc, l.v + 1) = n.v

\* the failing input of C5: the run of an accepted module is at `Call 200 0`,
\* whose target is outside the bytecode
C5_CallOutsideBytecode ==
    /\ Accepted
    /\ AtOp2({ OpCall })
    /\ ImmAt(pc + 1).v = 200
    /\ Len(bc) < 200

\* C6: every `Closure l n ...` a run of an accepted module reaches has its
\* target l inside the bytecode, at a Begin or a Cbegin.
C6_ClosureTargetIsProcedure ==
    (Accepted /\ AtOp2({ OpClosure })) =>
        LET l == ImmAt(pc + 1)
        IN  /\ ~l.hi
            /\ l.v < Len(bc)
            /\ bc[l.v + 1] \in { OpBegin, OpCbegin }

\* the failing input of C6: the run of an accepted module is at `Closure 200 0`
C6_ClosureOutsideBytecode ==
    /\ Accepted
    /\ AtOp2({ OpClosure })
    /\ ImmAt(pc + 1).v = 200
    /\ Len(bc) < 200

\* C7: every Jmp, CjmpZ and CjmpNz a run of an accepted module reaches has its
\* target inside the bytecode, at an opcode that is not Begin, Cbegin or Eof.
C7_JumpTargetIsBodyInstr ==
    (Accepted /\ AtOp1({ OpJmp, OpCjmpZ, OpCjmpNz })) =>
        LET l == ImmAt(pc + 1)
        IN  /\ ~l.hi
            /\ l.v < Len(bc)
            /\ bc[l.v + 1] \notin { OpBegin, OpCbegin, OpEof }

\* the failing input of C7: the run of an accepted module is at `Jmp 0`, and
\* address 0 holds the Begin of main
C7_JumpToBegin ==
    /\ Accepted
    /\ AtOp1({ OpJmp })
    /\ ImmAt(pc + 1).v = 0
    /\ bc[1] = OpBegin

\* C8: verify() of the module whose bytecode is the single byte 0xFF returns
\* the error "no main procedure" at offset 0.
C8_EofOnlyHasNoMain ==
    (bc = << OpEof >> /\ vresults # << >>) => vresults[1] = Err(0, "no_main")

\* the failing input of C8: verify() of the bytecode << 0xFF >> returned success
C8_EofOnlyAccepted == bc = << OpEof >> /\ vresults # << >> /\ vresults[1].ok

\* C9: verify() returns success only for a module whose instruction at offset
\* 0 is Begin with two parameters.
C9_AcceptedMainIsBeginOfTwo ==
    (vresults # << >> /\ vresults[1].ok) =>
        /\ Len(bc) >= 9
        /\ bc[1] = OpBegin
        /\ lo16(bc, 1) = 2

\* the failing input of C9: verify() of a module that starts with `Begin 0 0`
\* returned success
C9_BeginZeroAccepted ==
    /\ Len(bc) >= 9
    /\ SubSeq(bc, 1, 9) = I2(OpBegin, 0, 0)
    /\ vresults # << >>
    /\ vresults[1].ok

\* C10: two verify() calls in a row on one Module return the same result.
C10_VerifyTwiceSameResult == Len(vresults) >= 2 => vresults[2] = vresults[1]

\* the failing input of C10: a module with one symbol is accepted by the first
\* verify() and rejected by the second, which finds the name in symtab_map
C10_SecondVerifyRejects ==
    /\ Len(symtab) = 1
    /\ Len(vresults) >= 2
    /\ vresults[1].ok
    /\ vresults[2] = Err(symtab[1].address, "symbol_duplicate")

\* C11: every verify() call that reaches verify_bytecode returns: the work list
\* empties or an error ends the loop, whatever jumps the bytecode holds.
C11_VerifyTerminates == (vpc = "bytecode") ~> (vpc = "done")

\* verify() has returned for the module whose body is the backward loop
\* `9: Const 1; 14: Jmp 9`
C11_LoopModuleVerified ==
    /\ vpc = "done"
    /\ vresults # << >>
    /\ Len(bc) > 18
    /\ bc[10] = OpConst
    /\ bc[15] = OpJmp
    /\ ImmAt(15).v = 9

\* the events of one instruction, in the order of the decoder's contract: one
\* InstrStart first, one InstrEnd last, immediates between them, and at most one
\* Error, after the immediates
WellFormedEvents(es) ==
    /\ Len(es) >= 2
    /\ es[1].ev = "InstrStart"
    /\ es[Len(es)].ev = "InstrEnd"
    /\ \A i \in 2 .. Len(es) - 1 :
          \/ es[i].ev \in { "Imm32", "ImmVarspec" }
          \/ es[i].ev = "Error" /\ i = Len(es) - 1

\* C12, as stated: whatever the buffer and the cursor, a call of next()
\* delivers one InstrStart, then immediates, then at most one Error, then one
\* InstrEnd.
C12_EveryCallWellFormed == devents # << >> => WellFormedEvents(devents)

\* C12, amended: a call of next() with the cursor inside the buffer delivers
\* one InstrStart, then immediates, then at most one Error, then one InstrEnd;
\* a call with the cursor at or after the end of the buffer delivers one Error
\* of kind Eof, nothing else, and leaves the cursor where it is.
C12_CallInsideBufferWellFormed ==
    [][ /\ dpos < Len(bc) => WellFormedEvents(devents')
        /\ dpos >= Len(bc) => devents' = << DecodeError(dpos, "Eof") >> /\ dpos' = dpos
      ]_vars

\* a Closure whose variable descriptor has an unrecognised kind was decoded:
\* InstrStart, two Imm32, the Error, InstrEnd
C12_ClosureWithIllegalKindDecoded ==
    /\ Len(devents) = 5
    /\ devents[1].ev = "InstrStart"
    /\ devents[1].opcode = OpClosure
    /\ devents[3].ev = "Imm32"
    /\ devents[4] = DecodeError(devents[1].addr + 9, "IllegalVarKind")
    /\ devents[5].ev = "InstrEnd"

\* the number of bytes of the instruction whose events are es and hold no Error
EncodedLength(es) ==
    IF es[1].opcode \in DecodeVarspec THEN 5
    ELSE 1 + 4 * Cardinality({ i \in 1 .. Len(es) : es[i].ev = "Imm32" })
           + 5 * Cardinality({ i \in 1 .. Len(es) : es[i].ev = "ImmVarspec" })

imm_signed(a) ==
    bc[a + 1] + 256 * bc[a + 2] + 65536 * bc[a + 3]
      + 16777216 * (IF bc[a + 4] >= 128 THEN bc[a + 4] - 256 ELSE bc[a + 4])

\* C14: Const x with x a small integer pushes a word with the low bit set whose
\* get_aint() is x: from_int followed by get_aint is the identity on
\* [-2^(W-2), 2^(W-2) - 1].
C14_FromIntRoundTrip ==
    [][ (AtOp1({ OpConst }) /\ imm_signed(pc + 1) \in SmallInts /\ rstatus' = "run") =>
            /\ sbot' = sbot + 1
            /\ UNBOXED(stack'[sbot'])
            /\ get_aint(stack'[sbot']) = imm_signed(pc + 1)
      ]_vars

\* Const of the least small integer was executed and its word decodes to it
C14_MinSmallIntPushed ==
    /\ rstatus = "run"
    /\ pc = 14
    /\ bc[10] = OpConst
    /\ imm_signed(10) = MinSmallInt
    /\ get_aint(stack[sbot]) = MinSmallInt

\* the run is about to execute an instruction of ops on two small integers
AtArith(ops) ==
    /\ AtOp(ops)
    /\ sbot >= 2
    /\ sbot <= Len(stack)
    /\ UNBOXED(stack[sbot - 1])
    /\ UNBOXED(stack[sbot])
\* the operands, decoded
Lhs == get_aint(stack[sbot - 1])
Rhs == get_aint(stack[sbot])

\* x wrapped into W - 1 bits, two's complement
WrapSmall(x) == ((x - MinSmallInt) % (WordMod \div 2)) + MinSmallInt

\* the mathematical result of an arithmetic instruction; the quotient is
\* truncated towards zero and the remainder has the sign of the dividend
ArithResult(op, a, b) ==
    CASE op = OpAdd -> a + b
      [] op = OpSub -> a - b
      [] op = OpMul -> a * b
      [] op = OpDiv -> TruncDiv(a, b)
      [] op = OpMod -> a - b * TruncDiv(a, b)

\* C15: Add, Sub, Mul, Div and Mod on small integers a and b (b # 0 for Div and
\* Mod) push the value that decodes to the mathematical result wrapped into
\* W - 1 bits, two's complement.
C15_ArithmeticWraps ==
    [][ (AtArith(ArithOpcodes) /\ ~(bc[pc + 1] \in { OpDiv, OpMod } /\ Rhs = 0)) =>
            /\ rstatus' = "run"
            /\ sbot' = sbot - 1
            /\ UNBOXED(stack'[sbot'])
            /\ get_aint(stack'[sbot']) = WrapSmall(ArithResult(bc[pc + 1], Lhs, Rhs))
      ]_vars

\* the failing input of C15: the least small integer divided by -1 pushed 0
C15_MinDividedByMinusOneIsZero ==
    /\ rstatus = "run"
    /\ pc = 20
    /\ bc[20] = OpDiv
    /\ imm_signed(10) = MinSmallInt
    /\ imm_signed(15) = -1
    /\ steps = 4
    /\ get_aint(stack[sbot]) = 0

\* C16: Div and Mod on two small integers with the divisor 0 end run() with a
\* division-by-zero error, the operands popped and nothing pushed; with another
\* divisor the run goes on.
C16_DivisionByZero ==
    [][ AtArith({ OpDiv, OpMod }) =>
            IF Rhs = 0
                THEN /\ rstatus' = "error"
                     /\ rmsg' = (IF bc[pc + 1] = OpDiv THEN "division by zero"
                                 ELSE "division by zero (remainder)")
                     /\ sbot' = sbot - 2
                ELSE /\ rstatus' = "run"
                     /\ sbot' = sbot - 1
      ]_vars

\* run() returned the division-by-zero error for `Const 7; Const 0; Mod`
C16_RemainderByZeroRejected ==
    /\ rstatus = "error"
    /\ rmsg = "division by zero (remainder)"
    /\ bc[20] = OpMod
    /\ imm_signed(10) = 7
    /\ imm_signed(15) = 0
    /\ sbot = base

\* the callers that are past the guard, and the places of the history that
\* record something caller a did after its guard
Past == { a \in Callers : act[a].st = "past" }
EventsOf(a) == { i \in 1 .. Len(gcev) : gcev[i].who = a }

\* C17: whatever the order in which the callers (on several threads, or nested
\* in the thread of the running activation) call run(), at most one activation
\* is past the unique-runner guard at a time, and a rejected activation has
\* neither set the collector's stack pointers nor started the collector nor
\* executed an instruction.
C17_OneActivationPastGuard ==
    /\ Cardinality(Past) <= 1
    /\ \A a \in Callers : act[a].st = "rejected" => EventsOf(a) = { }

\* an activation is executing instructions, a call nested in its thread and a
\* call from another thread have both been rejected
C17_NestedAndConcurrentRejected ==
    /\ rstatus = "run"
    /\ steps >= 2
    /\ act[owner].st = "past"
    /\ \E a, b \in Callers \ { owner } :
           /\ act[a].st = "rejected"
           /\ act[a].thread = act[owner].thread
           /\ act[b].st = "rejected"
           /\ act[b].thread # act[owner].thread

\* what caller a did after its guard, in order, and how often it did ev
Events(a) == SelectSeq(gcev, LAMBDA e : e.who = a)
Count(es, ev) == Cardinality({ i \in 1 .. Len(es) : es[i].ev = ev })

\* C18: a run() that passed the guard sets __gc_stack_top and
\* __gc_stack_bottom, then calls __init, exactly once, then enters the first
\* frame, and executes instructions only after that; when it has returned,
\* with a value or with a runtime error, it has called __shutdown exactly
\* once, after its last instruction, and it does not call it earlier.
C18_GcInitAndShutdownOnce ==
    \A a \in Callers :
        act[a].st \in { "past", "returned" } =>
            /\ Len(Events(a)) >= 3
            /\ Events(a)[1].ev = "gc_stack"
            /\ Events(a)[2].ev = "__init"
            /\ Events(a)[3].ev = "enter_frame"
            /\ Count(Events(a), "__init") = 1
            /\ \A i \in 4 .. Len(Events(a)) :
                   \/ Events(a)[i].ev = "instr"
                   \/ Events(a)[i].ev = "__shutdown" /\ i = Len(Events(a))
            /\ Count(Events(a), "__shutdown") = IF act[a].st = "returned" THEN 1 ELSE 0

\* a run has ended with a runtime error after several instructions and the
\* collector has been shut down; a second run has started it again
C18_ErrorExitShutsDown ==
    /\ \E a \in Callers :
           /\ act[a].st = "returned"
           /\ Count(Events(a), "instr") >= 4
           /\ Events(a)[Len(Events(a))].ev = "__shutdown"
           /\ a # owner
    /\ rstatus = "error"
    /\ rmsg = "division by zero"
    /\ act[owner].st = "returned"
    /\ gcev[Len(gcev)] = GcEvent(owner, "__shutdown")

AllocOpcodes == { OpString, OpSexp, OpClosure, OpCallLstring, OpCallBarray }
\* the next instruction is an allocating one, whole inside the bytecode
AtAlloc ==
    /\ AtInstr
    /\ bc[pc + 1] \in AllocOpcodes
    /\ bc[pc + 1] \in { OpString, OpCallBarray } => HasImm(pc + 1)
    /\ bc[pc + 1] \in { OpSexp, OpClosure } => HasImm(pc + 1) /\ HasImm(pc + 5)
    /\ bc[pc + 1] = OpClosure => pc + 9 + 5 * ImmAt(pc + 5).v <= Len(bc)
\* the stack slot (0-based) the capture descriptor at address a reads: the
\* variable itself, or for a captured variable the closure of the frame
CaptureSlot(a) ==
    IF bc[a + 1] = 3 THEN base - args - 1 ELSE slot_idx(Cur, bc[a + 1], ImmAt(a + 1).v)
\* the stack slots whose values the instruction at pc reads after it has called
\* the allocator: the members of a Sexp and of an array, the variables a
\* closure captures. String needs none, and CallLstring has turned its
\* operand into characters before it allocates.
NeededSlots ==
    CASE bc[pc + 1] = OpSexp -> { sbot - k : k \in 1 .. ImmAt(pc + 5).v }
      [] bc[pc + 1] = OpCallBarray -> { sbot - k : k \in 1 .. ImmAt(pc + 1).v }
      [] bc[pc + 1] = OpClosure ->
             { CaptureSlot(pc + 9 + 5 * i) : i \in 0 .. ImmAt(pc + 5).v - 1 }
      [] OTHER -> { }
\* the object the instruction built holds the values the observable region held
\* when the allocator was called
BuiltFromRegion(o) ==
    CASE bc[pc + 1] \in { OpSexp, OpCallBarray } ->
             \A i \in 1 .. Len(o.fields) : o.fields[i] = stack[sbot - Len(o.fields) + i]
      [] bc[pc + 1] = OpClosure ->
             \A i \in 2 .. Len(o.fields) :
                 bc[pc + 5 * i] # 3 =>
                     o.fields[i] = stack[CaptureSlot(pc + 5 * i - 1) + 1]
      [] OTHER -> TRUE

\* C19: when an allocating instruction (String, Sexp, Closure, CallLstring,
\* CallBarray) calls the allocator, every value it reads afterwards lies in the
\* observable region [__gc_stack_top, __gc_stack_bottom), and the object it
\* builds holds the values of that region.
C19_AllocationRootsObservable ==
    [][AtAlloc /\ steps' = steps + 1 =>
           /\ NeededSlots \subseteq 0 .. sbot - 1
           /\ rstatus' = "run" => BuiltFromRegion(heap'[Len(heap')])]_vars

\* a closure has captured, from a slot above __gc_stack_bottom, the pointer to
\* a string that was dropped before the closure was allocated
C19_DroppedStringCaptured ==
    /\ rstatus = "run"
    /\ sbot = base + 1
    /\ is_closure(Cur, stack[sbot])
    /\ Len(ObjOf(Cur, stack[sbot]).fields) = 2
    /\ is_string(Cur, ObjOf(Cur, stack[sbot]).fields[2])
    /\ ObjOf(Cur, stack[sbot]).fields[2] = stack[sbot + 1]

\* __gc_stack_top is the start of the buffer the vector owns now, and
\* __gc_stack_bottom lies inside that buffer or at its end
StackPointersTrack == gc_stack_top = sdata /\ sbot >= 0 /\ sbot <= Len(stack)

\* C20: at every instruction boundary (and so at the allocator call of an
\* instruction, which comes before the instruction moves the stack)
\* __gc_stack_top is the base of the stack buffer and __gc_stack_bottom points
\* one past the live top inside that buffer; an instruction that resizes the
\* buffer leaves both pointers in the new buffer, and no instruction moves
\* __gc_stack_bottom out of the buffer (the model records that as the end of the
\* run in "ub" with the reason "stack_oob").
C20_GcPointersTrackStack ==
    [][AtInstr /\ steps' = steps + 1 =>
           /\ StackPointersTrack
           /\ rstatus' = "run" => StackPointersTrack'
           /\ ~(rstatus' = "ub" /\ rmsg' = "stack_oob")]_vars

\* the first push of a procedure whose Begin asked for no operand slot wrote
\* to the word after the buffer
C20_PushPastBuffer ==
    /\ rstatus = "ub"
    /\ rmsg = "stack_oob"
    /\ steps = 2
    /\ sbot = Len(stack)
    /\ bc[pc - 4] = OpConst

\* the call that entered the current frame: the machine before it, the number
\* of arguments it passes, whether it passes a closure, its length in bytes
TheCall == calls[Len(calls)]
CallArgs == IF bc[TheCall.pc + 1] = OpCall THEN ImmAt(TheCall.pc + 5).v
            ELSE ImmAt(TheCall.pc + 1).v
CallPassesClosure == IF bc[TheCall.pc + 1] = OpCallC THEN 1 ELSE 0
CallLength == IF bc[TheCall.pc + 1] = OpCall THEN 9 ELSE 5

\* C21: when the End or Ret that matches a Call l n or a CallC n returns, pc is
\* the address after the call, base, args and the frames are as the call found
\* them, and the stack is the stack the call found with the n arguments (and
\* the closure of a CallC) replaced by the callee's top-of-stack value. The
\* globals, which the callee may assign, are not compared.
C21_ReturnRestoresCaller ==
    [][Len(frames') < Len(frames) =>
           /\ pc' = TheCall.pc + CallLength
           /\ base' = TheCall.base
           /\ args' = TheCall.args
           /\ frames' = TheCall.frames
           /\ sbot' = TheCall.sbot - CallArgs - CallPassesClosure + 1
           /\ stack'[sbot'] = stack[sbot]
           /\ \A i \in global_count + 1 .. sbot' - 1 : stack'[i] = TheCall.stack[i]]_vars

\* a Call that passed one argument to a procedure of no parameter has
\* returned: the argument is still on the stack, below the returned value
C21_ArgumentLeftOnStack ==
    /\ rstatus = "run"
    /\ Len(frames) = 1
    /\ pc = 23
    /\ bc[15] = OpCall
    /\ sbot = base + 2
    /\ stack[sbot] = from_int(7)
    /\ stack[sbot - 1] = from_int(3)

\* the instruction about to execute is an End or a Ret
AtReturn == AtInstr /\ bc[pc + 1] \in { OpEnd, OpRet }

\* C22: run() returns success exactly when an End or a Ret executes in the
\* bottommost frame: no other step ends the run with success, an End or Ret
\* in the bottommost frame does (unless its stack accesses are undefined
\* behaviour), and an End or Ret in a frame above it never ends the run with
\* success.
C22_SuccessIsReturnFromBottomFrame ==
    [][/\ rstatus' = "ok" /\ rstatus # "ok" => AtReturn /\ Len(frames) = 1
       /\ AtReturn /\ steps' = steps + 1 /\ Len(frames) = 1 => rstatus' \in { "ok", "ub" }
       /\ AtReturn /\ steps' = steps + 1 /\ Len(frames) > 1 => rstatus' # "ok"]_vars

\* a run has returned success after an End executed in a called procedure
C22_NestedReturnThenSuccess ==
    /\ rstatus = "ok"
    /\ \E t \in trace : bc[t.addr + 1] \in { OpEnd, OpRet } /\ t.proc # 0
    /\ \E t \in trace : bc[t.addr + 1] \in { OpEnd, OpRet } /\ t.proc = 0

(***************************************************************************)
(* Claims about the idiom miner.                                           *)
(***************************************************************************)
\* the instruction at address a: the address after it, its bytes, and, for a
\* jump, its target
InstrAfter(a) == Decoder_next(bc, a).pos
InstrBytes(a) == SubSeq(bc, a + 1, InstrAfter(a))
JumpTargetOf(a) == ImmAt(a + 1).v

\* where control can go from the instruction at a without a call or a return
Successors(a) ==
    (IF bc[a + 1] \in { OpJmp, OpEnd, OpRet, OpFail } THEN { } ELSE { InstrAfter(a) })
      \cup (IF bc[a + 1] \in { OpJmp, OpCjmpZ, OpCjmpNz } THEN { JumpTargetOf(a) } ELSE { })

RECURSIVE ReachableFrom(_)
ReachableFrom(S) ==
    LET T == S \cup UNION { Successors(a) : a \in S }
    IN  IF T = S THEN S ELSE ReachableFrom(T)

\* the reachable instruction addresses, and the targets of the reachable jumps
ReachableInstrs == ReachableFrom({ info[i] : i \in DOMAIN info })
JumpTargets ==
    { JumpTargetOf(a) : a \in { x \in ReachableInstrs : bc[x + 1] \in { OpJmp, OpCjmpZ, OpCjmpNz } } }

\* the reachable instructions that a pair starts at
PairStarts ==
    { a \in ReachableInstrs :
        /\ bc[a + 1] \notin { OpJmp, OpCall, OpCallC, OpRet, OpEnd, OpFail }
        /\ InstrAfter(a) \notin JumpTargets }

Singles(s) == Cardinality({ a \in ReachableInstrs : InstrBytes(a) = s })
Pairs(s) ==
    Cardinality({ a \in PairStarts : InstrBytes(a) \o InstrBytes(InstrAfter(a)) = s })

\* the byte sequences of the module, and the count find_idioms returned for one
ByteSequences == { SubSeq(bc, i, j) : i \in 1 .. Len(bc), j \in 1 .. Len(bc) } \ { << >> }
Reported(s) ==
    IF \E i \in 1 .. Len(idioms) : idioms[i].instrs = s
        THEN idioms[CHOOSE i \in 1 .. Len(idioms) : idioms[i].instrs = s].occurrences
        ELSE 0

\* C23: for a verified module, the count find_idioms reports for a byte
\* sequence is the number of reachable instructions with these bytes plus the
\* number of reachable instructions, other than Jmp, Call, CallC, Ret, End and
\* Fail, that are not followed by the target of a reachable jump and whose bytes
\* together with their successor's are the sequence; nothing else is counted.
C23_CountsSinglesAndUnsplitPairs ==
    ipc = "done" => \A s \in ByteSequences : Reported(s) = Singles(s) + Pairs(s)

\* find_idioms returned for a module in which a pair was counted and an
\* instruction that could start a pair is followed by a jump target
C23_PairAndSplitMined ==
    /\ ipc = "done"
    /\ \E s \in ByteSequences : Pairs(s) >= 1 /\ Reported(s) >= 1
    /\ \E a \in ReachableInstrs :
          /\ bc[a + 1] \notin { OpJmp, OpCall, OpCallC, OpRet, OpEnd, OpFail }
          /\ InstrAfter(a) \in JumpTargets

\* l comes before r in the lexicographic order of their bytes
LexBefore(l, r) ==
    \E k \in 1 .. Len(r) :
        /\ \A i \in 1 .. k - 1 : i <= Len(l) /\ l[i] = r[i]
        /\ k > Len(l) \/ l[k] < r[k]

\* C24: find_idioms returns every counted byte sequence exactly once, by
\* descending count and, among equal counts, in ascending lexicographic order
\* of the bytes, whatever the order the map was iterated in.
C24_SortedOncePerSequence ==
    ipc = "done" =>
        /\ \A s \in ByteSequences :
              Cardinality({ i \in 1 .. Len(idioms) : idioms[i].instrs = s })
                = (IF Singles(s) + Pairs(s) > 0 THEN 1 ELSE 0)
        /\ \A i \in 1 .. Len(idioms) : idioms[i].instrs \in ByteSequences
        /\ \A i \in 1 .. Len(idioms) : \A j \in i + 1 .. Len(idioms) :
              \/ idioms[i].occurrences > idioms[j].occurrences
              \/ /\ idioms[i].occurrences = idioms[j].occurrences
                 /\ LexBefore(idioms[i].instrs, idioms[j].instrs)

\* find_idioms returned sequences of different counts and sequences of equal
\* counts, one of them a prefix of another
C24_TiesAndCountsSorted ==
    /\ ipc = "done"
    /\ \E i, j \in 1 .. Len(idioms) : idioms[i].occurrences > idioms[j].occurrences
    /\ \E i, j \in 1 .. Len(idioms) :
          /\ i # j
          /\ idioms[i].occurrences = idioms[j].occurrences
          /\ Len(idioms[i].instrs) < Len(idioms[j].instrs)
          /\ idioms[i].instrs = SubSeq(idioms[j].instrs, 1, Len(idioms[i].instrs))

(***************************************************************************)
(* Claims about the loader.                                                *)
(***************************************************************************)
\* the 32-bit field at offset a of the file is there and is not negative
FieldOk(a) == a + 4 <= Len(file) /\ ~from_u32_le(file, a).hi
FieldAt(a) == from_u32_le(file, a).v

\* where the string table and the bytecode section of the file start
StrtabOffset == 12 + 8 * FieldAt(8)
BytecodeOffset == StrtabOffset + FieldAt(0)

\* the three header fields and the symbol table's fields are non-negative, the
\* symbol table and the string table are complete, and the bytecode section
\* holds 0xFF as its final byte and nowhere else
WellFormedFile ==
    /\ FieldOk(0) /\ FieldOk(4) /\ FieldOk(8)
    /\ StrtabOffset <= Len(file)
    /\ \A i \in 0 .. FieldAt(8) - 1 : FieldOk(12 + 8 * i) /\ FieldOk(16 + 8 * i)
    /\ BytecodeOffset < Len(file)
    /\ file[Len(file)] = OpEof
    /\ \A i \in BytecodeOffset + 1 .. Len(file) - 1 : file[i] # OpEof

\* C27: Loader::load succeeds exactly for the well-formed files; for every
\* other file it returns an error with a byte offset of the file.
C27_LoadSucceedsExactlyOnWellFormed ==
    lpc = "done" /\ file # << >> =>
        /\ lres.ok <=> WellFormedFile
        /\ ~lres.ok => lres.offset \in 0 .. Len(file)

\* load() read a well-formed file to its end, every read leaving errno set, and
\* returned the error about the place of the end-of-file marker
C27_WellFormedFileRejected ==
    /\ lpc = "done"
    /\ WellFormedFile
    /\ lpos = Len(file)
    /\ ~lres.ok
    /\ lres.kind = "eof_marker_not_final"

(***************************************************************************)
(* Claims about the command-line driver.                                   *)
(***************************************************************************)
\* verify() was called and returned success
VerifySucceeded == vresults # << >> /\ vresults[Len(vresults)].ok

C26_ErrorsAreReturnedAndFinal ==
    /\ [](rstatus # "thrown" /\ \A a \in Callers : act[a].st # "rejected")
    /\ [][/\ rstatus = "error" /\ rstatus' = "error" =>
                steps' = steps /\ output' = output /\ trace' = trace
          /\ vpc = "done" /\ vpc' = "done" =>
                verified' = verified /\ to_verify' = to_verify]_vars

\* a run ended by the exception of a string table access, and the call of
\* run() that followed it was ended by the exception of the guard
C26_RunAndGuardThrew ==
    /\ rstatus = "thrown"
    /\ act[owner].st = "past"
    /\ \E a \in Callers : act[a].st = "rejected"

(***************************************************************************)
(* Claims about Eq, Swap and Sta (ValueSpec).                              *)
(***************************************************************************)
\* the interpreter executes the instruction at pc, whose opcode is op, with at
\* least n operands of the current frame on the stack
Executes(op, n) ==
    /\ AtOp({ op })
    /\ sbot - n >= base
    /\ sbot <= Len(stack)
    /\ steps' = steps + 1

\* the k-th operand from the top before the step (0: the topmost)
Operand(k) == stack[sbot - k]
BoxedObject(w) == ~UNBOXED(w) /\ w \div 2 \in 1 .. Len(heap)
TypeOfObject(w) == heap[w \div 2].type

\* C28: Eq never fails: for any two operand values it pops both and pushes a
\* boolean, which is signed equality for int/int, false for int/boxed, and
\* false for two boxed values of unequal types.
C28_EqNeverFails ==
    [][ Executes(OpEq, 2) =>
            /\ rstatus' = "run"
            /\ sbot' = sbot - 1
            /\ stack'[sbot'] \in { BOX(0), BOX(1) }
            /\ UNBOXED(Operand(1)) /\ UNBOXED(Operand(0)) =>
                   stack'[sbot'] = (IF get_aint(Operand(1)) = get_aint(Operand(0))
                                        THEN BOX(1) ELSE BOX(0))
            /\ UNBOXED(Operand(1)) # UNBOXED(Operand(0)) => stack'[sbot'] = BOX(0)
            /\ ( /\ BoxedObject(Operand(1)) /\ BoxedObject(Operand(0))
                 /\ TypeOfObject(Operand(1)) # TypeOfObject(Operand(0)) ) =>
                   stack'[sbot'] = BOX(0)
      ]_vars

\* the failing input of C28: Eq on a string and an array ended the run with an
\* error, both operands still on the stack
C28_EqOfStringAndArrayFailed ==
    /\ rstatus = "error"
    /\ rmsg = "operand types"
    /\ pc < Len(bc) /\ pc >= 1 /\ bc[pc] = OpEq
    /\ sbot >= 2
    /\ BoxedObject(stack[sbot]) /\ BoxedObject(stack[sbot - 1])
    /\ TypeOfObject(stack[sbot - 1]) = T_STRING
    /\ TypeOfObject(stack[sbot]) = T_ARRAY

\* C29: executing Swap exchanges the two topmost stack words, leaves the stack
\* height and every other stack slot unchanged, and continues with the
\* instruction following Swap without reading, popping or pushing anything
\* further and without raising an error.
C29_SwapExchangesTopTwo ==
    [][ Executes(OpSwap, 2) =>
            /\ rstatus' = "run"
            /\ pc' = pc + 1
            /\ sbot' = sbot
            /\ stack'[sbot] = Operand(1)
            /\ stack'[sbot - 1] = Operand(0)
            /\ \A i \in 1 .. Len(stack) : i \notin { sbot - 1, sbot } => stack'[i] = stack[i]
            /\ Len(stack') = Len(stack)
            /\ heap' = heap
      ]_vars

\* the failing input of C29: Const 0; String 0; Swap went on into Elem, which
\* replaced both exchanged words by the first byte of the string
C29_SwapIndexedTheString ==
    /\ rstatus = "run"
    /\ pc = 20
    /\ bc[20] = OpSwap
    /\ bc[10] = OpConst
    /\ bc[15] = OpString
    /\ steps = 4
    /\ sbot = base + 1
    /\ stack[sbot] = from_uint(char_to_auint(heap[1].fields[1]))

\* the operands of Sta before the step and what the claim says of them
StaTarget == Operand(2)
StaIndex == Operand(1)
StaValue == Operand(0)
StaTargetIsAggregate ==
    BoxedObject(StaTarget) /\ TypeOfObject(StaTarget) \in { T_ARRAY, T_STRING, T_SEXP }
StaRejected ==
    \/ ~StaTargetIsAggregate
    \/ ~UNBOXED(StaIndex)
    \/ get_aint(StaIndex) < 0
    \/ get_aint(StaIndex) >= Len(heap[StaTarget \div 2].fields)
    \/ /\ TypeOfObject(StaTarget) = T_STRING
       /\ ~(UNBOXED(StaValue) /\ get_aint(StaValue) \in 0 .. 255)
\* the heap after the store: one field of the target changed (a string keeps
\* the byte, the other aggregates keep the word)
StaStored ==
    [ heap EXCEPT ![StaTarget \div 2].fields[get_aint(StaIndex) + 1] =
        IF TypeOfObject(StaTarget) = T_STRING THEN get_aint(StaValue) ELSE StaValue ]

\* C30: Sta with a non-aggregate target, a non-integer index, an index outside
\* [0, len), or (for a string target) a value that is not an integer in
\* [0,255] returns a runtime error and leaves the aggregate's contents and the
\* three operands on the stack unmodified; otherwise it stores the value at the
\* index, pops the three operands and pushes the assigned value. The target is
\* an integer or points to an object.
C30_StaChecksBeforeStoring ==
    [][ (Executes(OpSta, 3) /\ (UNBOXED(StaTarget) \/ BoxedObject(StaTarget))) =>
            IF StaRejected
                THEN /\ rstatus' = "error"
                     /\ heap' = heap
                     /\ stack' = stack
                     /\ sbot' = sbot
                ELSE /\ rstatus' = "run"
                     /\ pc' = pc + 1
                     /\ heap' = StaStored
                     /\ sbot' = sbot - 2
                     /\ stack'[sbot'] = StaValue
                     /\ \A i \in 1 .. sbot' - 1 : stack'[i] = stack[i]
      ]_vars

\* a store into a string succeeded and left the assigned value on the stack,
\* and the next Sta, whose target is that integer, ended the run with an error
\* and its three operands in place
C30_StoredThenRejected ==
    /\ rstatus = "error"
    /\ rmsg = "cannot index"
    /\ pc = 36
    /\ bc[25] = OpSta
    /\ bc[36] = OpSta
    /\ heap[1].type = T_STRING
    /\ heap[1].fields[1] = 120
    /\ sbot = base + 3
    /\ stack[sbot - 2] = BOX(120)
    /\ stack[sbot - 1] = BOX(0)
    /\ stack[sbot] = BOX(1)

(***************************************************************************)
(* Claims about frames entered through CallC (CaptureSpec).                *)
(***************************************************************************)
\* the current frame was entered through CallC; the word that CallC found at
\* depth n, and the stack position of the first argument pushed above it
InClosureFrame == Len(calls) >= 1 /\ bc[TheCall.pc + 1] = OpCallC
CalledClosure == TheCall.stack[TheCall.sbot - CallArgs]
FirstArgument == TheCall.sbot - CallArgs + 1

\* C31: in a frame entered through CallC n, capture(i) denotes field i+1 of
\* exactly the closure object that was called (the word at stack depth n at the
\* call site, i.e. at base - args - 1 in the callee), arg(i) for 0 <= i < n
\* denotes the i-th of the n arguments pushed above that closure, and the
\* callee is entered at the address stored in the closure's field 0.
C31_CallCBindsClosureAndArguments ==
    [][ /\ (AtOp1({ OpCallC }) /\ steps' = steps + 1) =>
              /\ rstatus' = "run"
              /\ Len(frames') = Len(frames) + 1
              /\ pc' = get_auint(heap[stack[sbot - ImmAt(pc + 1).v] \div 2].fields[1])
        /\ (InClosureFrame /\ AtBodyInstr /\ steps' = steps + 1) =>
              /\ stack[base - args] = CalledClosure
              /\ args = CallArgs
        /\ (InClosureFrame /\ AtOp1({ OpLdC }) /\ steps' = steps + 1) =>
              /\ rstatus' = "run"
              /\ stack'[sbot'] = heap[CalledClosure \div 2].fields[ImmAt(pc + 1).v + 2]
        /\ (InClosureFrame /\ AtOp1({ OpStC }) /\ steps' = steps + 1) =>
              /\ rstatus' = "run"
              /\ heap' = [ heap EXCEPT ![CalledClosure \div 2].fields[ImmAt(pc + 1).v + 2] =
                                           stack[sbot] ]
        /\ (InClosureFrame /\ AtOp1({ OpLdA }) /\ ImmAt(pc + 1).v < CallArgs
              /\ steps' = steps + 1) =>
              /\ rstatus' = "run"
              /\ stack'[sbot'] = stack[FirstArgument + ImmAt(pc + 1).v]
              /\ stack[FirstArgument + ImmAt(pc + 1).v] =
                     TheCall.stack[FirstArgument + ImmAt(pc + 1).v]
      ]_vars

\* the upper of two closures of one procedure was called and its callee has
\* loaded capture 0: the global the called closure captured, not the local the
\* other closure captured
C31_UpperClosureCaptureLoaded ==
    /\ rstatus = "run"
    /\ InClosureFrame
    /\ pc = 67
    /\ bc[63] = OpLdC
    /\ Len(heap) = 2
    /\ CalledClosure = from_ptr(2)
    /\ heap[1].fields[2] = from_int(4)
    /\ heap[2].fields[2] = from_int(0)
    /\ stack[sbot] = from_int(0)

(***************************************************************************)
(* Claims about what the verifier checks of a module's instructions.       *)
(***************************************************************************)
\* the instruction at a lies inside the bytecode with its immediates
WholeInstr(a) ==
    /\ a >= 0 /\ a < Len(bc)
    /\ LET d == Decoder_next(bc, a)
       IN  d.out[Len(d.out)].ev = "InstrEnd" /\ \A i \in 1 .. Len(d.out) : d.out[i].ev # "Error"
\* where control goes from the instruction at a inside its procedure
BodySuccessors(a) ==
    IF ~WholeInstr(a) THEN { }
    ELSE { x \in (IF bc[a + 1] \in { OpJmp, OpEnd, OpRet, OpFail } THEN { }
                  ELSE { Decoder_next(bc, a).pos })
                   \cup (IF bc[a + 1] \in { OpJmp, OpCjmpZ, OpCjmpNz }
                             THEN { ImmAt(a + 1).v } ELSE { }) :
             x < Len(bc) }

RECURSIVE BodyClosure(_)
BodyClosure(S) ==
    LET T == S \cup UNION { BodySuccessors(a) : a \in S }
    IN  IF T = S THEN S ELSE BodyClosure(T)

\* the instructions of the procedure declared at p, and the procedures of the
\* module: the one at 0 and those that follow a reachable End
IsProcEntry(p) == p >= 0 /\ p + 9 < Len(bc) /\ bc[p + 1] \in { OpBegin, OpCbegin }
BodyOf(p) == BodyClosure({ p + 9 })
RECURSIVE ProcsFrom(_)
ProcsFrom(E) ==
    LET N == E \cup { q \in { Decoder_next(bc, a).pos :
                                a \in { x \in UNION { BodyOf(p) : p \in E } :
                                          bc[x + 1] = OpEnd } } : IsProcEntry(q) }
    IN  IF N = E THEN E ELSE ProcsFrom(N)
ProcEntries == ProcsFrom({ p \in { 0 } : IsProcEntry(p) })
DeclaredParams(p) == lo16(bc, p + 1)
DeclaredLocals(p) == ImmAt(p + 5).v

\* the variable descriptors of the instruction at a: of a load or store, the
\* low four bits of the opcode and the immediate; of Closure, its captures
VarspecsAt(a) ==
    IF ~WholeInstr(a) THEN { }
    ELSE IF bc[a + 1] \in DecodeVarspec
        THEN { [ kind |-> bc[a + 1] % 16, idx |-> ImmAt(a + 1).v ] }
    ELSE IF bc[a + 1] = OpClosure
        THEN { [ kind |-> bc[a + 10 + 5 * i], idx |-> ImmAt(a + 10 + 5 * i).v ] :
                 i \in 0 .. ImmAt(a + 5).v - 1 }
    ELSE { }
VarspecInRange(p, vs) ==
    CASE vs.kind = 0 -> vs.idx < global_count
      [] vs.kind = 1 -> vs.idx < DeclaredLocals(p)
      [] vs.kind = 2 -> vs.idx < DeclaredParams(p)
      [] OTHER -> TRUE

\* C32: in an accepted module, every varspec of a reachable Ld/Lda/St
\* instruction and every captured varspec of a reachable Closure satisfies:
\* global index < global_count, local index < the locals declared by the
\* procedure that owns that instruction, parameter index < the params declared
\* by that same procedure; a violation makes verify() fail.
C32_AcceptedVarspecsInRange ==
    Accepted =>
        \A p \in ProcEntries : \A a \in BodyOf(p) : \A vs \in VarspecsAt(a) :
            VarspecInRange(p, vs)

\* the failing input of C32: verify() accepted Begin 2 0; LdG 5; End in a
\* module of one global
C32_GlobalFiveAccepted ==
    /\ Accepted
    /\ global_count = 1
    /\ bc = Concat(<< Main(0), I1(OpLdG, 5), I0(OpEnd), << OpEof >> >>)
    /\ ProcEntries = { 0 }
    /\ 9 \in BodyOf(0)

(***************************************************************************)
(* Claims about verify_body_instr (BodySpec).                              *)
(***************************************************************************)
\* the greatest static height the verifier has recorded at an instruction of
\* the procedure declared at p (a procedure starts at height 0)
SetMax(S) == CHOOSE x \in S : \A y \in S : y <= x
MaxHeightIn(p) ==
    SetMax({ 0 } \cup { verified[a].stack_height :
                          a \in { x \in DOMAIN verified : verified[x].proc_addr = p } })

TopRequest == to_verify[Len(to_verify)]
NewRequests == SubSeq(to_verify', Len(to_verify), Len(to_verify'))
\* the loop is about to verify the body instruction at TopRequest.addr, whose
\* opcode is one of ops, and the iteration does not end verify()
VerifiesBody(ops) ==
    /\ vpc = "bytecode" /\ vpc' = "bytecode"
    /\ to_verify # << >>
    /\ to_verify' # to_verify \/ verified' # verified
    /\ ~TopRequest.top
    /\ WholeInstr(TopRequest.addr)
    /\ bc[TopRequest.addr + 1] \in ops

\* C34: after verifying Jmp, End, Ret or Fail the verifier enqueues no
\* fall-through body successor; End, and only End, additionally enqueues the
\* address following it as a top-level item, so in an accepted module the byte
\* following every reachable End is Begin, Cbegin or the Eof sentinel.
C34_TerminalsAndProcedureAfterEnd ==
    /\ [][ /\ VerifiesBody({ OpRet, OpFail }) => NewRequests = << >>
           /\ VerifiesBody({ OpJmp }) =>
                  NewRequests = << BodyInstrVerifyReq(ImmAt(TopRequest.addr + 1).v,
                                                      TopRequest.proc_addr,
                                                      TopRequest.stack_height) >>
           /\ VerifiesBody({ OpEnd }) =>
                  NewRequests = << TopLevelInstrVerifyReq(TopRequest.addr + 1, FALSE) >>
           /\ VerifiesBody(0 .. 255 \ { OpEnd }) =>
                  \A i \in 1 .. Len(NewRequests) : ~NewRequests[i].top
         ]_vars
    /\ [](Accepted =>
            \A p \in ProcEntries : \A a \in BodyOf(p) :
                bc[a + 1] = OpEnd =>
                    a + 1 < Len(bc) /\ bc[a + 2] \in { OpBegin, OpCbegin, OpEof })

\* the failing input of C34: verify() accepted Begin 2 0; End; Const 0, where
\* Const follows the End of main
C34_ConstAfterEndAccepted ==
    /\ Accepted
    /\ bc = Concat(<< Main(0), I0(OpEnd), I1(OpConst, 0), << OpEof >> >>)
    /\ 9 \in BodyOf(0)
    /\ bc[10] = OpEnd
    /\ bc[11] = OpConst

\* the string-table offsets of a module: its symbols' names and the first
\* immediates of the reachable String, Sexp and Tag instructions
StrtabOffsets ==
    { symtab[i].name : i \in 1 .. Len(symtab) }
        \cup { ImmAt(a + 1).v : a \in { x \in UNION { BodyOf(p) : p \in ProcEntries } :
                                          bc[x + 1] \in { OpString, OpSexp, OpTag } } }
\* offset s lies in the table and a NUL byte terminates the string at s
NulTerminatedAt(s) ==
    /\ s < Len(strtab)
    /\ \E k \in s + 1 .. Len(strtab) : strtab[k] = 0

\* C35: whenever the verifier accepts a string-table offset s (a symbol name,
\* or the immediate of String, Sexp or Tag), s < size of strtab and strtab
\* contains a NUL byte at some position >= s, for every strtab content,
\* including a non-empty strtab that contains no NUL byte at all.
C35_AcceptedOffsetsNulTerminated ==
    Accepted => \A s \in StrtabOffsets : NulTerminatedAt(s)

\* the failing input of C35: a module whose string table is "ab" without a NUL
\* byte and whose one symbol is named by offset 0 has been accepted
C35_UnterminatedNameAccepted ==
    /\ Accepted
    /\ strtab = << 97, 98 >>
    /\ symtab = << Sym(12, 0, 0) >>
    /\ last_strtab_entry = 0
    /\ \A k \in 1 .. Len(strtab) : strtab[k] # 0

\* the iteration has added the body request (a, TopRequest's procedure, h)
Enqueued(a, h) ==
    \E i \in 1 .. Len(NewRequests) :
        NewRequests[i] = BodyInstrVerifyReq(a, TopRequest.proc_addr, h)

DecodesCleanly(a) ==
    \A i \in 1 .. Len(Decoder_next(bc, a).out) : Decoder_next(bc, a).out[i].ev # "Error"
\* the opcodes after which the verifier continues with the next instruction
FallThroughOpcodes == 0 .. 255 \ { OpJmp, OpEnd, OpRet, OpFail }

CallsRun(a) == act[a].st = "none" /\ act'[a].st # "none"

\* C38: when an activation that holds the runner guard leaves run(), by
\* success or by runtime error, the GC __shutdown has already been called and
\* the runner flag is cleared, so a later run() is accepted; an activation
\* rejected by the guard does not clear the flag held by the running
\* activation.
C38_LeavingRunReleasesGuard ==
    [][ /\ \A a \in Callers :
               act[a].st = "past" /\ act'[a].st = "returned" =>
                   /\ rstatus' \in { "ok", "error" }
                   /\ gcev'[Len(gcev')] = GcEvent(a, "__shutdown")
                   /\ gc' = "down"
                   /\ ~running'
        /\ \A a \in Callers :
               CallsRun(a) /\ ~running => act'[a].st = "past" /\ running' /\ owner' = a
        /\ \A a \in Callers :
               CallsRun(a) /\ running =>
                   /\ act'[a].st = "rejected"
                   /\ running'
                   /\ owner' = owner
                   /\ gc' = gc
                   /\ gcev' = gcev
      ]_vars

\* a run ended with a runtime error, a later call of run() was accepted and
\* is executing, and a call made during it was rejected
C38_AcceptedAfterErrorExit ==
    /\ Len(bc) >= 20
    /\ bc[20] = OpDiv
    /\ rstatus = "run"
    /\ running
    /\ steps >= 1
    /\ act[owner].st = "past"
    /\ \E a \in Callers \ { owner } :
           /\ act[a].st = "returned"
           /\ Count(Events(a), "instr") >= 4
    /\ \E b \in Callers \ { owner } : act[b].st = "rejected"

\* the size Begin or Cbegin at address p gives the buffer for a frame whose
\* base is b: b + locals + the high 16 bits of the first immediate
BufferFor(p, b) == b + LocalsOf(p) + hi16(bc, p + 1)

\* C39: in the statically verified build (no DYNAMIC_VERIFICATION), while
\* executing an accepted module every push writes inside the allocated stack
\* buffer: at all times stack_bottom - stack_top <= stack.size(), where the
\* buffer is grown only at Begin/Cbegin to base + locals + (high 16 bits of the
\* first immediate). A push outside the buffer ends the model's run in "ub"
\* with the reason "stack_oob".
C39_PushesStayInBuffer ==
    Accepted /\ ~dynamic_verification /\ rstatus # "idle" =>
        /\ sbot <= Len(stack)
        /\ ~(rstatus = "ub" /\ rmsg = "stack_oob")

\* the failing input of C39: in the accepted module Begin 2 0; Const 0; End,
\* whose Begin sized the buffer for the globals, the two arguments of main and
\* nothing else, Const pushed with the buffer full
C39_ConstPushedOnFullBuffer ==
    /\ Accepted
    /\ ~dynamic_verification
    /\ bc = Concat(<< I2(OpBegin, BeginImm(2, 0), 0), I1(OpConst, 0), I0(OpEnd),
                      << OpEof >> >>)
    /\ hi16(bc, 1) = 0
    /\ Len(stack) = BufferFor(0, global_count + 2)
    /\ rstatus = "ub"
    /\ rmsg = "stack_oob"

(***************************************************************************)
(* Claims about the locals of a new frame (FrameSpec).                     *)
(***************************************************************************)
\* the word of local(i) of the current frame
LocalSlot(i) == stack[base + i + 1]
\* Begin or Cbegin has just set up the frame of the procedure at p
FrameSetUpAt(p) ==
    /\ rstatus = "run"
    /\ IsProcEntry(p)
    /\ pc = p + 9
    /\ sbot = base + LocalsOf(p)
    /\ sbot <= Len(stack)

\* C40: immediately after Begin/Cbegin sets up a frame, every local slot
\* local(0..locals-1) holds the small integer 0 and never a word left over
\* from an earlier frame's locals or operand stack, so every word in the
\* GC-visible region [stack_top, stack_bottom) is a small integer or a
\* pointer stored while that slot was live.
C40_LocalsStartAsZero ==
    \A p \in 0 .. Len(bc) - 9 :
        FrameSetUpAt(p) => \A i \in 0 .. LocalsOf(p) - 1 : LocalSlot(i) = BOX(0)

\* the failing input of C40: main pushed a string and dropped it, and the
\* Begin of the procedure it then called has set up a frame whose local 0 is
\* the dropped string's pointer
C40_LocalIsDroppedPointer ==
    /\ FrameSetUpAt(25)
    /\ bc[10] = OpString
    /\ bc[15] = OpDrop
    /\ Len(frames) = 2
    /\ LocalsOf(25) >= 1
    /\ ~UNBOXED(LocalSlot(0))
    /\ sbot > base

====
